---- MODULE Spec2Model ----
(***************************************************************************)
(* State-machine model of the civitest quiz engine: the question selector, *)
(* the choice shuffler, the quiz store (appStore / quizActions), the quiz  *)
(* timer hook and the localStorage history.                                *)
(*                                                                         *)
(* JavaScript indices are kept 0-based (currentQuestionIndex,              *)
(* selectedChoiceIndex, originalToShuffledMap); At(s, i) reads s[i].       *)
(* A nullable value is a sequence of length 0 (null) or 1 (the value).     *)
(***************************************************************************)
EXTENDS Integers, Sequences, FiniteSets, TLC

VARIABLES
    questionsQuery, \* the state of the ['questions'] query of useQuestions
    bank,           \* the loaded question bank (allQuestions)
    storage,        \* the QuizHistory persisted under civitest_quiz_history
    selection,      \* the value last returned by selectQuestions
    currentQuiz,    \* appStore.state.currentQuiz (null or a QuizSession)
    quizHistory,    \* appStore.state.quizHistory
    intervalArmed,  \* useQuizTimer: intervalRef.current is set
    clock,          \* the wall clock (Date.now / new Date), a logical counter
    lastOp          \* the last event handled, its argument and its return value

vars == <<questionsQuery, bank, storage, selection, currentQuiz, quizHistory, intervalArmed,
          clock, lastOp>>

----------------------------------------------------------------------------
(* Bounds of the model *)

MaxSeed == 1          \* random streams 0..MaxSeed are drawn by a call that shuffles
MaxSkew == 1          \* how far a generated topic pool departs from its quota
MaxOldSets == 1       \* recorded sets older than the last three
MaxClock == 3         \* clock readings taken (quiz ids and result dates)
MaxFiles == 3         \* question files fetched by one load (QUESTION_FILES)

\* the inputs the events of the store are issued with
BankSizes == {0, 1, 2}          \* sizes of the bank a session is started from
\* (question index, choice index) pairs given to answerQuestion
AnswerInputs == {<<-1, 0>>, <<0, 0>>, <<0, 1>>, <<1, 0>>, <<1, 1>>, <<2, 1>>}
NavInputs == {-1, 1, 2}         \* indices given to goToQuestion
StartSeeds == {0}               \* random streams drawn by startQuiz
\* the times remaining at which the countdown is followed tick by tick; the
\* ticks between them are taken in one step (Elapse)
FollowedTimes == {45 * 60, 2, 1}

----------------------------------------------------------------------------
(* Configuration *)

NULL == << >>
Some(x) == <<x>>

TOPICS ==
    << [id |-> "principes_valeurs", targetCount |-> 11],
       [id |-> "institutions", targetCount |-> 6],
       [id |-> "droits_devoirs", targetCount |-> 11],
       [id |-> "histoire_geographie_culture", targetCount |-> 8],
       [id |-> "vivre_france", targetCount |-> 4] >>

SITUATIONAL_TOPIC_CONFIG ==
    [t \in {TOPICS[i].id : i \in 1..Len(TOPICS)} |->
        IF t \in {"principes_valeurs", "droits_devoirs"} THEN 6 ELSE 0]

timeLimit == 45 * 60
passingScore100 == 80     \* QUIZ_CONFIG.passingScore * 100 (0.8 * 100 is 80)
RECENT_SETS == 3          \* usedQuestionSets.slice(-3)
MAX_SET_HISTORY == 10     \* addUsedQuestionSet: slice(-10)
MAX_QUIZ_RESULTS == 20
MAX_QUESTION_SETS == 5
RandDen == 64             \* Math.random() is k / RandDen, k in 0..RandDen-1

----------------------------------------------------------------------------
(* Sequence helpers (Array.prototype) *)

At(s, i) == s[i + 1]

Min(a, b) == IF a < b THEN a ELSE b
Max(a, b) == IF a > b THEN a ELSE b

\* s.slice(0, n), n >= 0
Take(s, n) == SubSeq(s, 1, Min(n, Len(s)))

\* s.slice(-n), n > 0
LastN(s, n) == SubSeq(s, Max(1, Len(s) - n + 1), Len(s))

RECURSIVE Flat(_)
Flat(ss) == IF ss = << >> THEN << >> ELSE Head(ss) \o Flat(Tail(ss))

Range(s) == {s[i] : i \in 1..Len(s)}

\* the swap writing only shuffled[i] = shuffled[j]
Swap_Overwrite(s, a, b) == [s EXCEPT ![a] = s[b]]

Swap(s, a, b) == [s EXCEPT ![a] = s[b], ![b] = s[a]]

----------------------------------------------------------------------------
(* Math.random: the n-th draw of random stream `seed`, as a numerator over *)
(* RandDen.  Every caller chooses its stream nondeterministically.         *)

Random(seed, n) == (seed * 29 + n * 11 + seed * n * 5 + n * n * 3 + 7) % RandDen

(* shuffle: Fisher-Yates on a copy; i runs from the last index down to 1,  *)
(* j = floor(Math.random() * (i + 1)), swap i and j.  ctr is the number of *)
(* draws already taken from the stream.                                    *)
RECURSIVE shuffleLoop(_, _, _, _)
shuffleLoop(shuffled, i, seed, ctr) ==
    IF i <= 0 THEN shuffled
    ELSE LET j == (Random(seed, ctr) * (i + 1)) \div RandDen
         IN  shuffleLoop(Swap(shuffled, i + 1, j + 1), i - 1, seed, ctr + 1)

shuffle(array, seed, ctr) == shuffleLoop(array, Len(array) - 1, seed, ctr)

\* number of draws one shuffle of `array` takes
Draws(array) == Max(Len(array) - 1, 0)

----------------------------------------------------------------------------
(* selectQuestions: weighted selection by topic, with the situational      *)
(* sub-quota of SITUATIONAL_TOPIC_CONFIG and fresh questions first.        *)

\* the exclusion set taken from every recorded set
recentlyUsedIdsOf_AllSets(usedQuestionSets) == Range(Flat(usedQuestionSets))

recentlyUsedIdsOf(usedQuestionSets) == Range(Flat(LastN(usedQuestionSets, RECENT_SETS)))

\* the situational branch with the knowledge slice fixed at quota - k, whatever
\* the situational slice holds
selectSituationalTopic_FixedKnowledge(topicQuestions, recentlyUsedIds, targetCount, situationalRequired, seed, ctr) ==
    LET situationalQuestions == SelectSeq(topicQuestions, LAMBDA q : q.type = "situational")
        knowledgeQuestions == SelectSeq(topicQuestions, LAMBDA q : q.type = "knowledge")
        freshSituational == SelectSeq(situationalQuestions, LAMBDA q : q.id \notin recentlyUsedIds)
        usedSituational == SelectSeq(situationalQuestions, LAMBDA q : q.id \in recentlyUsedIds)
        freshKnowledge == SelectSeq(knowledgeQuestions, LAMBDA q : q.id \notin recentlyUsedIds)
        usedKnowledge == SelectSeq(knowledgeQuestions, LAMBDA q : q.id \in recentlyUsedIds)
        c1 == ctr + Draws(freshSituational)
        c2 == c1 + Draws(usedSituational)
        c3 == c2 + Draws(freshKnowledge)
        c4 == c3 + Draws(usedKnowledge)
        availableSituational ==
            shuffle(freshSituational, seed, ctr) \o shuffle(usedSituational, seed, c1)
        selectedSituational == Take(availableSituational, situationalRequired)
        knowledgeCount == targetCount - situationalRequired
        availableKnowledge ==
            shuffle(freshKnowledge, seed, c2) \o shuffle(usedKnowledge, seed, c3)
        selectedKnowledge == Take(availableKnowledge, knowledgeCount)
    IN  [selected |-> selectedSituational \o selectedKnowledge, ctr |-> c4]

\* the branch for a topic that requires situational questions
selectSituationalTopic(topicQuestions, recentlyUsedIds, targetCount, situationalRequired, seed, ctr) ==
    LET situationalQuestions == SelectSeq(topicQuestions, LAMBDA q : q.type = "situational")
        knowledgeQuestions == SelectSeq(topicQuestions, LAMBDA q : q.type = "knowledge")
        freshSituational == SelectSeq(situationalQuestions, LAMBDA q : q.id \notin recentlyUsedIds)
        usedSituational == SelectSeq(situationalQuestions, LAMBDA q : q.id \in recentlyUsedIds)
        freshKnowledge == SelectSeq(knowledgeQuestions, LAMBDA q : q.id \notin recentlyUsedIds)
        usedKnowledge == SelectSeq(knowledgeQuestions, LAMBDA q : q.id \in recentlyUsedIds)
        c1 == ctr + Draws(freshSituational)
        c2 == c1 + Draws(usedSituational)
        c3 == c2 + Draws(freshKnowledge)
        c4 == c3 + Draws(usedKnowledge)
        availableSituational ==
            shuffle(freshSituational, seed, ctr) \o shuffle(usedSituational, seed, c1)
        selectedSituational == Take(availableSituational, situationalRequired)
        knowledgeCount == targetCount - Len(selectedSituational)
        availableKnowledge ==
            shuffle(freshKnowledge, seed, c2) \o shuffle(usedKnowledge, seed, c3)
        selectedKnowledge == Take(availableKnowledge, knowledgeCount)
    IN  [selected |-> selectedSituational \o selectedKnowledge, ctr |-> c4]

\* mutants of the plain branch: one slot short, used questions first, and a
\* used list that is not filtered
selectPlainTopic_OneShort(topicQuestions, recentlyUsedIds, targetCount, seed, ctr) ==
    LET freshQuestions == SelectSeq(topicQuestions, LAMBDA q : q.id \notin recentlyUsedIds)
        usedQuestions == SelectSeq(topicQuestions, LAMBDA q : q.id \in recentlyUsedIds)
        c1 == ctr + Draws(freshQuestions)
        c2 == c1 + Draws(usedQuestions)
        availableQuestions ==
            shuffle(freshQuestions, seed, ctr) \o shuffle(usedQuestions, seed, c1)
    IN  [selected |-> Take(availableQuestions, targetCount - 1), ctr |-> c2]

selectPlainTopic_UsedFirst(topicQuestions, recentlyUsedIds, targetCount, seed, ctr) ==
    LET freshQuestions == SelectSeq(topicQuestions, LAMBDA q : q.id \notin recentlyUsedIds)
        usedQuestions == SelectSeq(topicQuestions, LAMBDA q : q.id \in recentlyUsedIds)
        c1 == ctr + Draws(freshQuestions)
        c2 == c1 + Draws(usedQuestions)
        availableQuestions ==
            shuffle(usedQuestions, seed, c1) \o shuffle(freshQuestions, seed, ctr)
    IN  [selected |-> Take(availableQuestions, targetCount), ctr |-> c2]

selectPlainTopic_UsedUnfiltered(topicQuestions, recentlyUsedIds, targetCount, seed, ctr) ==
    LET freshQuestions == SelectSeq(topicQuestions, LAMBDA q : q.id \notin recentlyUsedIds)
        usedQuestions == topicQuestions
        c1 == ctr + Draws(freshQuestions)
        c2 == c1 + Draws(usedQuestions)
        availableQuestions ==
            shuffle(freshQuestions, seed, ctr) \o shuffle(usedQuestions, seed, c1)
    IN  [selected |-> Take(availableQuestions, targetCount), ctr |-> c2]

\* the branch for the other topics
selectPlainTopic(topicQuestions, recentlyUsedIds, targetCount, seed, ctr) ==
    LET freshQuestions == SelectSeq(topicQuestions, LAMBDA q : q.id \notin recentlyUsedIds)
        usedQuestions == SelectSeq(topicQuestions, LAMBDA q : q.id \in recentlyUsedIds)
        c1 == ctr + Draws(freshQuestions)
        c2 == c1 + Draws(usedQuestions)
        availableQuestions ==
            shuffle(freshQuestions, seed, ctr) \o shuffle(usedQuestions, seed, c1)
    IN  [selected |-> Take(availableQuestions, targetCount), ctr |-> c2]

\* mutant: the situational sub-quota is not consulted
selectTopic_IgnoreTypes(allQuestions, recentlyUsedIds, topic, seed, ctr) ==
    selectPlainTopic(SelectSeq(allQuestions, LAMBDA q : q.topic = topic.id),
                     recentlyUsedIds, topic.targetCount, seed, ctr)

\* one iteration of `for (const topic of TOPICS)`
selectTopic(allQuestions, recentlyUsedIds, topic, seed, ctr) ==
    LET topicQuestions == SelectSeq(allQuestions, LAMBDA q : q.topic = topic.id)
        targetCount == topic.targetCount
        situationalRequired == SITUATIONAL_TOPIC_CONFIG[topic.id]
    IN  IF situationalRequired > 0
        THEN selectSituationalTopic(topicQuestions, recentlyUsedIds, targetCount,
                                    situationalRequired, seed, ctr)
        ELSE selectPlainTopic(topicQuestions, recentlyUsedIds, targetCount, seed, ctr)

\* the loop over TOPICS, from topic number t on; acc is selectedQuestions
RECURSIVE selectLoop(_, _, _, _, _, _)
selectLoop(allQuestions, recentlyUsedIds, t, seed, ctr, acc) ==
    IF t > Len(TOPICS) THEN [selected |-> acc, ctr |-> ctr]
    ELSE LET r == selectTopic(allQuestions, recentlyUsedIds, TOPICS[t], seed, ctr)
         IN  selectLoop(allQuestions, recentlyUsedIds, t + 1, seed, r.ctr,
                        acc \o r.selected)

\* what the per-topic loop has pushed, before the final shuffle
selectedBeforeShuffle(allQuestions, usedQuestionSets, seed) ==
    selectLoop(allQuestions, recentlyUsedIdsOf(usedQuestionSets), 1, seed, 0, << >>)

selectQuestions(allQuestions, usedQuestionSets, seed) ==
    LET r == selectedBeforeShuffle(allQuestions, usedQuestionSets, seed)
    IN  shuffle(r.selected, seed, r.ctr)

\* draws taken by one call of selectQuestions
selectDraws(allQuestions, usedQuestionSets, seed) ==
    LET r == selectedBeforeShuffle(allQuestions, usedQuestionSets, seed)
    IN  r.ctr + Draws(r.selected)

----------------------------------------------------------------------------
(* Question banks and recorded sets the selector is applied to.  A topic   *)
(* pool is described by its numbers of fresh/used situational/knowledge    *)
(* questions; ids are the positions in the bank.                           *)

TopicIds == {TOPICS[i].id : i \in 1..Len(TOPICS)}

TwoChoices == << [label |-> 0, isCorrect |-> TRUE], [label |-> 1, isCorrect |-> FALSE] >>

MakeQuestion(id, topic, type, choices) ==
    [id |-> id, topic |-> topic, type |-> type, choices |-> choices]

Block(n, firstId, topic, type, used) ==
    [i \in 1..n |-> [q |-> MakeQuestion(firstId + i - 1, topic, type, TwoChoices),
                     used |-> used]]

PoolSize(p) == p.fs + p.us + p.fk + p.uk

TopicPool(topic, p, firstId) ==
    Block(p.fs, firstId, topic, "situational", FALSE)
    \o Block(p.us, firstId + p.fs, topic, "situational", TRUE)
    \o Block(p.fk, firstId + p.fs + p.us, topic, "knowledge", FALSE)
    \o Block(p.uk, firstId + p.fs + p.us + p.fk, topic, "knowledge", TRUE)

RECURSIVE TaggedBank(_, _, _)
TaggedBank(profiles, t, firstId) ==
    IF t > Len(TOPICS) THEN << >>
    ELSE TopicPool(TOPICS[t].id, profiles[t], firstId)
         \o TaggedBank(profiles, t + 1, firstId + PoolSize(profiles[t]))

ProfileNames ==
    {"exact", "double", "usedOnly", "surplus", "skew", "sitHeavy", "knowHeavy", "short"}
BaseProfiles == {"exact", "double"}

\* the nominal situational share of a topic pool: the sub-quota, or half the quota
NominalSit(t) ==
    IF SITUATIONAL_TOPIC_CONFIG[TOPICS[t].id] > 0
    THEN SITUATIONAL_TOPIC_CONFIG[TOPICS[t].id]
    ELSE TOPICS[t].targetCount \div 2

Profile(name, m, t) ==
    LET s == NominalSit(t)
        w == TOPICS[t].targetCount - s
    IN  CASE name = "exact"     -> [fs |-> s, us |-> 0, fk |-> w, uk |-> 0]
          [] name = "double"    -> [fs |-> s, us |-> s, fk |-> w, uk |-> w]
          [] name = "usedOnly"  -> [fs |-> 0, us |-> s, fk |-> 0, uk |-> w]
          [] name = "surplus"   -> [fs |-> s + m, us |-> 0, fk |-> w + m, uk |-> 0]
          [] name = "skew"      -> [fs |-> s - m, us |-> s + m, fk |-> w + m, uk |-> w - m]
          [] name = "sitHeavy"  -> [fs |-> s + m, us |-> 0, fk |-> w - m, uk |-> 0]
          [] name = "knowHeavy" -> [fs |-> s - m, us |-> 0, fk |-> w + m, uk |-> 0]
          [] name = "short"     -> [fs |-> s - m, us |-> 0, fk |-> w, uk |-> 0]

\* usedQuestionSets holding `o` older sets (of fresh ids) and then `n` recent
\* sets over which the used ids are spread
RecordedSets(usedIds, freshIds, n, o) ==
    [i \in 1..o |-> freshIds]
    \o [j \in 1..n |-> SelectSeq(usedIds, LAMBDA id : id % n = j - 1)]

DEFAULT_QUIZ_HISTORY ==
    [results |-> << >>, usedQuestionSets |-> << >>, lastQuizDate |-> NULL]

NoOp == [op |-> "init", arg |-> << >>, ret |-> NULL]

\* the query once the bank is loaded
LoadedQuery == [status |-> "success", failureCount |-> 0, error |-> ""]

SelectInit ==
    \E focus \in 1..Len(TOPICS), name \in ProfileNames, base \in BaseProfiles,
       m \in 1..MaxSkew, n \in 0..RECENT_SETS, o \in 0..MaxOldSets :
       LET profiles == [t \in 1..Len(TOPICS) |->
                          IF t = focus THEN Profile(name, m, t) ELSE Profile(base, 1, t)]
           tagged == TaggedBank(profiles, 1, 1)
           usedIds == [i \in 1..Len(SelectSeq(tagged, LAMBDA e : e.used)) |->
                          SelectSeq(tagged, LAMBDA e : e.used)[i].q.id]
           freshIds == [i \in 1..Len(SelectSeq(tagged, LAMBDA e : ~e.used)) |->
                          SelectSeq(tagged, LAMBDA e : ~e.used)[i].q.id]
       IN  /\ m <= Min(NominalSit(focus), TOPICS[focus].targetCount - NominalSit(focus))
           /\ (name \in {"exact", "double", "usedOnly"} => m = 1)
           /\ (o > 0 => n = RECENT_SETS)
           /\ (n = 0 => usedIds = << >>)
           /\ bank = [i \in 1..Len(tagged) |-> tagged[i].q]
           /\ storage = [DEFAULT_QUIZ_HISTORY EXCEPT
                            !.usedQuestionSets = RecordedSets(usedIds, freshIds, n, o)]
           /\ selection = << >>
           /\ currentQuiz = NULL
           /\ quizHistory = DEFAULT_QUIZ_HISTORY
           /\ intervalArmed = FALSE
           /\ clock = 0
           /\ lastOp = NoOp
           /\ questionsQuery = LoadedQuery

\* a call selectQuestions(bank, getQuizHistory().usedQuestionSets)
SelectQuestions ==
    \E seed \in 0..MaxSeed :
       /\ selection' = selectQuestions(bank, storage.usedQuestionSets, seed)
       /\ lastOp' = [op |-> "selectQuestions", arg |-> <<seed>>, ret |-> NULL]
       /\ UNCHANGED <<questionsQuery, bank, storage, currentQuiz, quizHistory, intervalArmed, clock>>

SelectNext == SelectQuestions

SelectSpec == SelectInit /\ [][SelectNext]_vars

----------------------------------------------------------------------------
(* shuffleChoices: shuffle the choice indices and track the mapping *)

\* Array.prototype.indexOf (0-based): the first position of x, -1 without one
IndexOf(s, x) ==
    IF \E i \in 1..Len(s) : s[i] = x
    THEN (CHOOSE i \in 1..Len(s) : s[i] = x /\ \A k \in 1..(i - 1) : s[k] # x) - 1
    ELSE -1

\* shuffleChoices recording the shuffled-to-original map (shuffledIndices)
\* in place of the original-to-shuffled one
shuffleChoices_InverseMap(question, seed, ctr) ==
    LET indices == [i \in 1..Len(question.choices) |-> i - 1]
        shuffledIndices == shuffle(indices, seed, ctr)
        shuffledChoices == [p \in 1..Len(shuffledIndices) |->
                               At(question.choices, shuffledIndices[p])]
    IN  [id |-> question.id, topic |-> question.topic, type |-> question.type,
         choices |-> question.choices,
         shuffledChoices |-> shuffledChoices,
         originalToShuffledMap |-> shuffledIndices]

shuffleChoices(question, seed, ctr) ==
    LET indices == [i \in 1..Len(question.choices) |-> i - 1]
        shuffledIndices == shuffle(indices, seed, ctr)
        shuffledChoices == [p \in 1..Len(shuffledIndices) |->
                               At(question.choices, shuffledIndices[p])]
        originalToShuffledMap == [i \in 1..Len(indices) |->
                                     IndexOf(shuffledIndices, indices[i])]
    IN  [id |-> question.id, topic |-> question.topic, type |-> question.type,
         choices |-> question.choices,
         shuffledChoices |-> shuffledChoices,
         originalToShuffledMap |-> originalToShuffledMap]

\* selectedQuestions.map(shuffleChoices), the draws continuing from ctr
RECURSIVE mapShuffleChoices(_, _, _)
mapShuffleChoices(questions, seed, ctr) ==
    IF questions = << >> THEN << >>
    ELSE <<shuffleChoices(Head(questions), seed, ctr)>>
         \o mapShuffleChoices(Tail(questions), seed, ctr + Draws(Head(questions).choices))

----------------------------------------------------------------------------
(* calculatePercentage: Math.round((value / total) * 100).  Math.round     *)
(* rounds halves up; the double (23 / 40) * 100 is 57.49999999999999, so   *)
(* that quotient (the only such one for total <= 40) rounds down.          *)

calculatePercentage(value, total) ==
    IF total = 0 THEN 0
    ELSE IF 40 * value = 23 * total THEN 57
    ELSE (200 * value + total) \div (2 * total)

----------------------------------------------------------------------------
(* localStorage history *)

\* how the writes of one saveQuizHistory call can go: the availability probe
\* fails; the write succeeds; it fails on the quota and the trimmed write
\* succeeds or fails too; it fails with another error
WriteOutcomes == {"ok", "quotaThenOk", "quotaThenFail", "otherError", "unavailable"}

getQuizHistory == storage

\* saveQuizHistory with the trimmed write outside any try block: the
\* exception of a failed retry leaves the call
saveQuizHistory_RetryThrows(history, outcome) ==
    LET trimmedHistory ==
            [history EXCEPT
                !.results = LastN(history.results, MAX_QUIZ_RESULTS),
                !.usedQuestionSets = LastN(history.usedQuestionSets, MAX_QUESTION_SETS)]
    IN  CASE outcome = "unavailable" ->
               [threw |-> "none", stored |-> storage, writes |-> << >>,
                saveResult |-> [success |-> FALSE, quotaExceeded |-> FALSE, trimmed |-> FALSE]]
          [] outcome = "ok" ->
               [threw |-> "none", stored |-> history, writes |-> <<history>>,
                saveResult |-> [success |-> TRUE, quotaExceeded |-> FALSE, trimmed |-> FALSE]]
          [] outcome = "quotaThenOk" ->
               [threw |-> "none", stored |-> trimmedHistory, writes |-> <<history, trimmedHistory>>,
                saveResult |-> [success |-> TRUE, quotaExceeded |-> TRUE, trimmed |-> TRUE]]
          [] outcome = "quotaThenFail" ->
               [threw |-> "QuotaExceededError", stored |-> storage,
                writes |-> <<history, trimmedHistory>>,
                saveResult |-> [success |-> FALSE, quotaExceeded |-> TRUE, trimmed |-> FALSE]]
          [] outcome = "otherError" ->
               [threw |-> "none", stored |-> storage, writes |-> <<history>>,
                saveResult |-> [success |-> FALSE, quotaExceeded |-> FALSE, trimmed |-> FALSE]]

\* saveQuizHistory: what is stored afterwards, the SaveResult returned and
\* the histories given to localStorage.setItem, for each way the writes go;
\* threw is the exception that leaves the call, "none" for a normal return
saveQuizHistory(history, outcome) ==
    LET trimmedHistory ==
            [history EXCEPT
                !.results = LastN(history.results, MAX_QUIZ_RESULTS),
                !.usedQuestionSets = LastN(history.usedQuestionSets, MAX_QUESTION_SETS)]
    IN  CASE outcome = "unavailable" ->
               [threw |-> "none", stored |-> storage, writes |-> << >>,
                saveResult |-> [success |-> FALSE, quotaExceeded |-> FALSE, trimmed |-> FALSE]]
          [] outcome = "ok" ->
               [threw |-> "none", stored |-> history, writes |-> <<history>>,
                saveResult |-> [success |-> TRUE, quotaExceeded |-> FALSE, trimmed |-> FALSE]]
          [] outcome = "quotaThenOk" ->
               [threw |-> "none", stored |-> trimmedHistory, writes |-> <<history, trimmedHistory>>,
                saveResult |-> [success |-> TRUE, quotaExceeded |-> TRUE, trimmed |-> TRUE]]
          [] outcome = "quotaThenFail" ->
               [threw |-> "none", stored |-> storage, writes |-> <<history, trimmedHistory>>,
                saveResult |-> [success |-> FALSE, quotaExceeded |-> TRUE, trimmed |-> FALSE]]
          [] outcome = "otherError" ->
               [threw |-> "none", stored |-> storage, writes |-> <<history>>,
                saveResult |-> [success |-> FALSE, quotaExceeded |-> FALSE, trimmed |-> FALSE]]

\* what an event records of the save it made
SaveInfo(saved, outcome) ==
    [outcome |-> outcome, threw |-> saved.threw, saveResult |-> saved.saveResult,
     writes |-> saved.writes]

addQuizResult(result, outcome) ==
    LET history == getQuizHistory
        updatedHistory == [history EXCEPT !.results = Append(history.results, result),
                                          !.lastQuizDate = Some(result.date)]
        saved == saveQuizHistory(updatedHistory, outcome)
    IN  [history |-> updatedHistory, stored |-> saved.stored,
         saveResult |-> saved.saveResult, save |-> SaveInfo(saved, outcome)]

\* addUsedQuestionSet putting the new set in front of the recorded ones
addUsedQuestionSet_Prepend(questionIds, outcome) ==
    LET history == getQuizHistory
        updatedHistory ==
            [history EXCEPT !.usedQuestionSets =
                LastN(<<questionIds>> \o history.usedQuestionSets, MAX_SET_HISTORY)]
        saved == saveQuizHistory(updatedHistory, outcome)
    IN  [history |-> updatedHistory, stored |-> saved.stored,
         saveResult |-> saved.saveResult, save |-> SaveInfo(saved, outcome)]

addUsedQuestionSet(questionIds, outcome) ==
    LET history == getQuizHistory
        updatedHistory ==
            [history EXCEPT !.usedQuestionSets =
                LastN(Append(history.usedQuestionSets, questionIds), MAX_SET_HISTORY)]
        saved == saveQuizHistory(updatedHistory, outcome)
    IN  [history |-> updatedHistory, stored |-> saved.stored,
         saveResult |-> saved.saveResult, save |-> SaveInfo(saved, outcome)]

----------------------------------------------------------------------------
(* Reading the history: getQuizResults, getQuizStatistics *)

\* the comparator with its operands exchanged: oldest first
InsertNewestFirst_OldestFirst(sorted, r) ==
    LET before == {i \in 0..Len(sorted) : \A k \in 1..i : sorted[k].date <= r.date}
        at == CHOOSE i \in before : \A k \in before : k <= i
    IN  SubSeq(sorted, 1, at) \o <<r>> \o SubSeq(sorted, at + 1, Len(sorted))

\* Array.prototype.sort with (a, b) => date(b) - date(a): a stable sort,
\* newest first; sorted is the sorted prefix, r the next element
InsertNewestFirst(sorted, r) ==
    LET before == {i \in 0..Len(sorted) : \A k \in 1..i : sorted[k].date >= r.date}
        at == CHOOSE i \in before : \A k \in before : k <= i
    IN  SubSeq(sorted, 1, at) \o <<r>> \o SubSeq(sorted, at + 1, Len(sorted))

RECURSIVE sortNewestFirst(_, _)
sortNewestFirst(results, sorted) ==
    IF results = << >> THEN sorted
    ELSE sortNewestFirst(Tail(results), InsertNewestFirst(sorted, Head(results)))

getQuizResults == sortNewestFirst(getQuizHistory.results, << >>)

RECURSIVE Sum(_)
Sum(s) == IF s = << >> THEN 0 ELSE Head(s) + Sum(Tail(s))

\* Math.round(a / b) for a >= 0, b > 0
RoundDiv(a, b) == (2 * a + b) \div (2 * b)

Reverse(s) == [i \in 1..Len(s) |-> s[Len(s) + 1 - i]]

\* getQuizStatistics without its guard for the empty log: 0 / 0 is NaN and
\* the maximum and minimum of nothing are -Infinity and Infinity
getQuizStatistics_NoEmptyGuard ==
    LET results == getQuizResults
        scores == [i \in 1..Len(results) |-> results[i].percentage]
        passedCount == Len(SelectSeq(results, LAMBDA r : r.passed))
        totalTime == Sum([i \in 1..Len(results) |-> results[i].timeTaken])
    IN  IF Len(results) = 0
        THEN [totalQuizzes |-> 0, averageScore |-> 0, passRate |-> 0, bestScore |-> 0,
              worstScore |-> 0, totalQuestionsAnswered |-> 0, averageTimePerQuiz |-> 0,
              recentTrend |-> << >>,
              notFinite |-> {"averageScore", "passRate", "bestScore", "worstScore",
                             "averageTimePerQuiz"}]
        ELSE [totalQuizzes |-> Len(results),
              averageScore |-> RoundDiv(Sum(scores), Len(scores)),
              passRate |-> calculatePercentage(passedCount, Len(results)),
              bestScore |-> CHOOSE x \in Range(scores) : \A y \in Range(scores) : y <= x,
              worstScore |-> CHOOSE x \in Range(scores) : \A y \in Range(scores) : y >= x,
              totalQuestionsAnswered |->
                  Sum([i \in 1..Len(results) |-> results[i].totalQuestions]),
              averageTimePerQuiz |-> RoundDiv(totalTime, Len(results)),
              recentTrend |->
                  Reverse([i \in 1..Min(Len(results), 10) |-> results[i].percentage]),
              notFinite |-> {}]

\* getQuizStatistics; notFinite names the fields whose value is NaN or an
\* infinity in place of the number shown
getQuizStatistics ==
    LET results == getQuizResults
        scores == [i \in 1..Len(results) |-> results[i].percentage]
        passedCount == Len(SelectSeq(results, LAMBDA r : r.passed))
        totalTime == Sum([i \in 1..Len(results) |-> results[i].timeTaken])
    IN  IF Len(results) = 0
        THEN [totalQuizzes |-> 0, averageScore |-> 0, passRate |-> 0, bestScore |-> 0,
              worstScore |-> 0, totalQuestionsAnswered |-> 0, averageTimePerQuiz |-> 0,
              recentTrend |-> << >>, notFinite |-> {}]
        ELSE [totalQuizzes |-> Len(results),
              averageScore |-> RoundDiv(Sum(scores), Len(scores)),
              passRate |-> calculatePercentage(passedCount, Len(results)),
              bestScore |-> CHOOSE x \in Range(scores) : \A y \in Range(scores) : y <= x,
              worstScore |-> CHOOSE x \in Range(scores) : \A y \in Range(scores) : y >= x,
              totalQuestionsAnswered |->
                  Sum([i \in 1..Len(results) |-> results[i].totalQuestions]),
              averageTimePerQuiz |-> RoundDiv(totalTime, Len(results)),
              recentTrend |->
                  Reverse([i \in 1..Min(Len(results), 10) |-> results[i].percentage]),
              notFinite |-> {}]

----------------------------------------------------------------------------
(* importQuizHistory: JSON.parse, validateQuizHistory, saveQuizHistory.    *)
(* A JSON text is its syntax and, when the syntax is valid, the value it   *)
(* denotes; values carry their JSON type.                                  *)

JNull == [type |-> "null"]
JString(x) == [type |-> "string", value |-> x]
JArray(items) == [type |-> "array", items |-> items]

\* JSON.parse
JSONparse(text) ==
    IF text.syntax = "invalid" THEN [threw |-> "SyntaxError"]
    ELSE [threw |-> "none", value |-> text.root]

\* QuizResultSchema, on the fields the results of the model carry
validResult(r) ==
    /\ r.score >= 0
    /\ r.totalQuestions >= 0
    /\ r.percentage \in 0..100
    /\ r.timeTaken >= 0

\* validateQuizHistory: QuizHistorySchema.parse
validateQuizHistory(data) ==
    IF /\ {"results", "usedQuestionSets", "lastQuizDate"} \subseteq DOMAIN data
       /\ data.results.type = "array"
       /\ \A i \in 1..Len(data.results.items) : validResult(data.results.items[i])
       /\ data.usedQuestionSets.type = "array"
       /\ data.lastQuizDate.type \in {"null", "string"}
    THEN [threw |-> "none",
          value |-> [results |-> data.results.items,
                     usedQuestionSets |-> data.usedQuestionSets.items,
                     lastQuizDate |-> IF data.lastQuizDate.type = "null" THEN NULL
                                      ELSE Some(data.lastQuizDate.value)]]
    ELSE [threw |-> "ZodError"]

\* importQuizHistory returning only whether the import was made, with no
\* reason for a failure
importQuizHistory_NoReason(jsonString, outcome) ==
    LET parsed == JSONparse(jsonString)
        validated == validateQuizHistory(parsed.value)
        saved == saveQuizHistory(validated.value, outcome)
    IN  IF parsed.threw = "SyntaxError"
        THEN [stored |-> storage, save |-> NULL,
              ret |-> [success |-> FALSE, error |-> ""]]
        ELSE IF validated.threw # "none"
        THEN [stored |-> storage, save |-> NULL,
              ret |-> [success |-> FALSE, error |-> ""]]
        ELSE [stored |-> saved.stored, save |-> Some(SaveInfo(saved, outcome)),
              ret |-> [success |-> TRUE, error |-> ""]]

\* importQuizHistory: what is stored afterwards and the object returned
importQuizHistory(jsonString, outcome) ==
    LET parsed == JSONparse(jsonString)
        validated == validateQuizHistory(parsed.value)
        saved == saveQuizHistory(validated.value, outcome)
    IN  IF parsed.threw = "SyntaxError"
        THEN [stored |-> storage, save |-> NULL,
              ret |-> [success |-> FALSE, error |-> "Invalid JSON format"]]
        ELSE IF validated.threw # "none"
        THEN [stored |-> storage, save |-> NULL,
              ret |-> [success |-> FALSE, error |-> "Invalid quiz history data structure"]]
        ELSE [stored |-> saved.stored, save |-> Some(SaveInfo(saved, outcome)),
              ret |-> [success |-> TRUE, error |-> ""]]

----------------------------------------------------------------------------
(* The quiz store (appStore, quizActions) and the timer hook *)

HasQuiz == currentQuiz # NULL
Quiz == currentQuiz[1]

\* the effect without its test of isPaused: the interval survives a pause
timerEffect_IgnorePause(quiz) == quiz # NULL /\ ~quiz[1].isCompleted

\* useQuizTimer's effect, re-run on every change of isCompleted / isPaused:
\* the interval exists exactly while the session is neither completed nor paused
timerEffect(quiz) == quiz # NULL /\ ~quiz[1].isCompleted /\ ~quiz[1].isPaused

\* startQuiz(allQuestions); the selector is given the recorded sets of the
\* history read at entry
startQuiz ==
    /\ clock + 1 < MaxClock     \* a started quiz can be ended within the clock bound
    /\ \E seed \in StartSeeds :
        LET history == getQuizHistory
            picked == selectedBeforeShuffle(bank, history.usedQuestionSets, seed)
            selectedQuestions == shuffle(picked.selected, seed, picked.ctr)
            shuffledQuestions ==
                mapShuffleChoices(selectedQuestions, seed,
                                  picked.ctr + Draws(picked.selected))
            questionIds == [i \in 1..Len(selectedQuestions) |-> selectedQuestions[i].id]
            newQuiz ==
                [id |-> clock,
                 startedAt |-> clock,
                 completedAt |-> NULL,
                 questions |-> shuffledQuestions,
                 answers |-> [i \in 1..Len(shuffledQuestions) |->
                                [questionId |-> shuffledQuestions[i].id,
                                 selectedChoiceIndex |-> NULL,
                                 isCorrect |-> FALSE,
                                 timeTaken |-> 0]],
                 currentQuestionIndex |-> 0,
                 timeRemaining |-> timeLimit,
                 isCompleted |-> FALSE,
                 isPaused |-> FALSE]
        IN  /\ \E outcome \in WriteOutcomes :
                  LET added == addUsedQuestionSet(questionIds, outcome)
                  IN  /\ storage' = added.stored
                      /\ lastOp' = [op |-> "startQuiz", arg |-> << >>, ret |-> NULL,
                                    save |-> added.save]
            /\ selection' = selectedQuestions
            /\ currentQuiz' = Some(newQuiz)
            /\ intervalArmed' = timerEffect(Some(newQuiz))
            /\ clock' = clock + 1
            /\ UNCHANGED <<questionsQuery, bank, quizHistory>>

\* answerQuestion without its `if (!question) return state` guard: the answer
\* written at index length grows the answers array
answerQuestionState_NoRangeGuard(quiz, questionIndex, choiceIndex) ==
    IF quiz = NULL \/ quiz[1].isCompleted THEN quiz
    ELSE IF questionIndex = Len(quiz[1].questions)
    THEN Some([quiz[1] EXCEPT
                 !.answers = Append(@, [selectedChoiceIndex |-> Some(choiceIndex),
                                        isCorrect |-> FALSE])])
    ELSE IF ~(questionIndex \in 0..(Len(quiz[1].questions) - 1)) THEN quiz
    ELSE LET question == At(quiz[1].questions, questionIndex)
             isCorrect ==
                 IF choiceIndex \in 0..(Len(question.shuffledChoices) - 1)
                 THEN At(question.shuffledChoices, choiceIndex).isCorrect
                 ELSE FALSE
         IN  Some([quiz[1] EXCEPT
                     !.answers[questionIndex + 1].selectedChoiceIndex = Some(choiceIndex),
                     !.answers[questionIndex + 1].isCorrect = isCorrect])

\* answerQuestion keeping an answer correct once it was: isCorrect is not
\* recomputed from the new choice alone
answerQuestionState_StickyCorrect(quiz, questionIndex, choiceIndex) ==
    IF quiz = NULL \/ quiz[1].isCompleted THEN quiz
    ELSE IF ~(questionIndex \in 0..(Len(quiz[1].questions) - 1)) THEN quiz
    ELSE LET question == At(quiz[1].questions, questionIndex)
             isCorrect ==
                 IF choiceIndex \in 0..(Len(question.shuffledChoices) - 1)
                 THEN At(question.shuffledChoices, choiceIndex).isCorrect
                 ELSE FALSE
         IN  Some([quiz[1] EXCEPT
                     !.answers[questionIndex + 1].selectedChoiceIndex = Some(choiceIndex),
                     !.answers[questionIndex + 1].isCorrect = @ \/ isCorrect])

\* the state returned by answerQuestion's updater
answerQuestionState(quiz, questionIndex, choiceIndex) ==
    IF quiz = NULL \/ quiz[1].isCompleted THEN quiz
    ELSE IF ~(questionIndex \in 0..(Len(quiz[1].questions) - 1)) THEN quiz
    ELSE LET question == At(quiz[1].questions, questionIndex)
             isCorrect ==
                 IF choiceIndex \in 0..(Len(question.shuffledChoices) - 1)
                 THEN At(question.shuffledChoices, choiceIndex).isCorrect
                 ELSE FALSE
         IN  Some([quiz[1] EXCEPT
                     !.answers[questionIndex + 1].selectedChoiceIndex = Some(choiceIndex),
                     !.answers[questionIndex + 1].isCorrect = isCorrect])

answerQuestion(questionIndex, choiceIndex) ==
    /\ currentQuiz' = answerQuestionState(currentQuiz, questionIndex, choiceIndex)
    /\ intervalArmed' = timerEffect(currentQuiz')
    /\ lastOp' = [op |-> "answerQuestion", arg |-> <<questionIndex, choiceIndex>>,
                  ret |-> NULL]
    /\ UNCHANGED <<questionsQuery, bank, storage, selection, quizHistory, clock>>

goToQuestionState(quiz, index) ==
    IF quiz = NULL THEN quiz
    ELSE LET clampedIndex == Max(0, Min(index, Len(quiz[1].questions) - 1))
         IN  Some([quiz[1] EXCEPT !.currentQuestionIndex = clampedIndex])

goToQuestion(index) ==
    /\ currentQuiz' = goToQuestionState(currentQuiz, index)
    /\ intervalArmed' = timerEffect(currentQuiz')
    /\ lastOp' = [op |-> "goToQuestion", arg |-> <<index>>, ret |-> NULL]
    /\ UNCHANGED <<questionsQuery, bank, storage, selection, quizHistory, clock>>

\* nextQuestion wrapping around to the first question instead of Math.min
nextQuestionState_Wrap(quiz) ==
    IF quiz = NULL THEN quiz
    ELSE IF Len(quiz[1].questions) = 0 THEN quiz
    ELSE LET nextIndex == (quiz[1].currentQuestionIndex + 1) % Len(quiz[1].questions)
         IN  Some([quiz[1] EXCEPT !.currentQuestionIndex = nextIndex])

nextQuestionState(quiz) ==
    IF quiz = NULL THEN quiz
    ELSE LET nextIndex == Min(quiz[1].currentQuestionIndex + 1,
                              Len(quiz[1].questions) - 1)
         IN  Some([quiz[1] EXCEPT !.currentQuestionIndex = nextIndex])

nextQuestion ==
    /\ currentQuiz' = nextQuestionState(currentQuiz)
    /\ intervalArmed' = timerEffect(currentQuiz')
    /\ lastOp' = [op |-> "nextQuestion", arg |-> << >>, ret |-> NULL]
    /\ UNCHANGED <<questionsQuery, bank, storage, selection, quizHistory, clock>>

prevQuestionState(quiz) ==
    IF quiz = NULL THEN quiz
    ELSE LET prevIndex == Max(quiz[1].currentQuestionIndex - 1, 0)
         IN  Some([quiz[1] EXCEPT !.currentQuestionIndex = prevIndex])

prevQuestion ==
    /\ currentQuiz' = prevQuestionState(currentQuiz)
    /\ intervalArmed' = timerEffect(currentQuiz')
    /\ lastOp' = [op |-> "prevQuestion", arg |-> << >>, ret |-> NULL]
    /\ UNCHANGED <<questionsQuery, bank, storage, selection, quizHistory, clock>>

updateTimeRemainingState(quiz, seconds) ==
    IF quiz = NULL THEN quiz
    ELSE Some([quiz[1] EXCEPT !.timeRemaining = seconds])

pauseQuizState(quiz) ==
    IF quiz = NULL THEN quiz ELSE Some([quiz[1] EXCEPT !.isPaused = TRUE])

pauseQuiz ==
    /\ currentQuiz' = pauseQuizState(currentQuiz)
    /\ intervalArmed' = timerEffect(currentQuiz')
    /\ lastOp' = [op |-> "pauseQuiz", arg |-> << >>, ret |-> NULL]
    /\ UNCHANGED <<questionsQuery, bank, storage, selection, quizHistory, clock>>

resumeQuizState(quiz) ==
    IF quiz = NULL THEN quiz ELSE Some([quiz[1] EXCEPT !.isPaused = FALSE])

resumeQuiz ==
    /\ currentQuiz' = resumeQuizState(currentQuiz)
    /\ intervalArmed' = timerEffect(currentQuiz')
    /\ lastOp' = [op |-> "resumeQuiz", arg |-> << >>, ret |-> NULL]
    /\ UNCHANGED <<questionsQuery, bank, storage, selection, quizHistory, clock>>

\* the topicPerformance computed by endQuiz
topicPerformanceOf(quiz) ==
    LET perf(t) ==
            LET topicQuestions == SelectSeq(quiz.questions, LAMBDA q : q.topic = TOPICS[t].id)
                \* quiz.answers.find((a) => a.questionId === q.id)
                found(q) == {i \in 1..Len(quiz.answers) :
                                /\ quiz.answers[i].questionId = q.id
                                /\ \A k \in 1..(i - 1) : quiz.answers[k].questionId # q.id}
                correct == Len(SelectSeq(topicQuestions,
                              LAMBDA q : \E i \in found(q) : quiz.answers[i].isCorrect))
                total == Len(topicQuestions)
            IN  [topicId |-> TOPICS[t].id, correct |-> correct, total |-> total,
                 percentage |-> calculatePercentage(correct, total)]
    IN  SelectSeq([t \in 1..Len(TOPICS) |-> perf(t)], LAMBDA tp : tp.total > 0)

\* endQuiz passing only above the passing score (> in place of >=)
resultOf_StrictPass(quiz, date) ==
    LET timeTaken == timeLimit - quiz.timeRemaining
        correctAnswers == Len(SelectSeq(quiz.answers, LAMBDA a : a.isCorrect))
        percentage == calculatePercentage(correctAnswers, Len(quiz.questions))
        passed == percentage > passingScore100
    IN  [id |-> quiz.id,
         date |-> date,
         score |-> correctAnswers,
         totalQuestions |-> Len(quiz.questions),
         percentage |-> percentage,
         passed |-> passed,
         timeTaken |-> timeTaken,
         topicPerformance |-> topicPerformanceOf(quiz)]

\* the QuizResult computed by endQuiz for the session `quiz` at date `date`
resultOf(quiz, date) ==
    LET timeTaken == timeLimit - quiz.timeRemaining
        correctAnswers == Len(SelectSeq(quiz.answers, LAMBDA a : a.isCorrect))
        percentage == calculatePercentage(correctAnswers, Len(quiz.questions))
        passed == percentage >= passingScore100
    IN  [id |-> quiz.id,
         date |-> date,
         score |-> correctAnswers,
         totalQuestions |-> Len(quiz.questions),
         percentage |-> percentage,
         passed |-> passed,
         timeTaken |-> timeTaken,
         topicPerformance |-> topicPerformanceOf(quiz)]

\* does endQuiz return null for this store state
endQuizReturnsNull(quiz) == quiz = NULL

\* endQuiz giving up when the result could not be saved: the session stays
\* open and null is returned
endQuizEffect_GiveUpUnsaved(quiz, outcome, caller) ==
    IF endQuizReturnsNull(quiz)
    THEN /\ lastOp' = [op |-> caller, arg |-> << >>, ret |-> NULL]
         /\ currentQuiz' = quiz
         /\ UNCHANGED <<storage, quizHistory, clock>>
    ELSE LET result == resultOf(quiz[1], clock)
             added == addQuizResult(result, outcome)
         IN  /\ storage' = added.stored
             /\ currentQuiz' = IF added.saveResult.success
                               THEN Some([quiz[1] EXCEPT !.isCompleted = TRUE,
                                                         !.completedAt = Some(clock)])
                               ELSE quiz
             /\ quizHistory' = added.history
             /\ clock' = clock + 1
             /\ lastOp' = [op |-> caller, arg |-> << >>,
                           ret |-> IF added.saveResult.success THEN Some(result) ELSE NULL,
                           save |-> added.save]

\* the effect of endQuiz() on the store and the storage, reading `quiz` as
\* appStore.state.currentQuiz; caller is "endQuiz" (handleSubmit) or "timeUp"
\* (handleTimeUp, from the interval callback)
endQuizEffect(quiz, outcome, caller) ==
    IF endQuizReturnsNull(quiz)
    THEN /\ lastOp' = [op |-> caller, arg |-> << >>, ret |-> NULL]
         /\ currentQuiz' = quiz
         /\ UNCHANGED <<storage, quizHistory, clock>>
    ELSE LET result == resultOf(quiz[1], clock)
             added == addQuizResult(result, outcome)
         IN  /\ storage' = added.stored
             /\ currentQuiz' = Some([quiz[1] EXCEPT !.isCompleted = TRUE,
                                                    !.completedAt = Some(clock)])
             /\ quizHistory' = added.history
             /\ clock' = clock + 1
             /\ lastOp' = [op |-> caller, arg |-> << >>, ret |-> Some(result),
                           save |-> added.save]

endQuiz ==
    /\ clock < MaxClock
    /\ \E outcome \in WriteOutcomes : endQuizEffect(currentQuiz, outcome, "endQuiz")
    /\ intervalArmed' = timerEffect(currentQuiz')
    /\ UNCHANGED <<questionsQuery, bank, selection>>

\* the interval callback without its onTimeUp() call: the tick that reaches 0
\* clears the interval and stores the time, and the session is not ended
Tick_NoTimeUp ==
    /\ intervalArmed
    /\ HasQuiz
    /\ Quiz.timeRemaining \in FollowedTimes
    /\ LET newTime == Quiz.timeRemaining - 1
       IN  IF newTime <= 0
           THEN /\ currentQuiz' = updateTimeRemainingState(currentQuiz, 0)
                /\ intervalArmed' = FALSE
                /\ lastOp' = [op |-> "tick", arg |-> << >>, ret |-> NULL]
                /\ UNCHANGED <<questionsQuery, bank, storage, selection, quizHistory, clock>>
           ELSE /\ currentQuiz' = updateTimeRemainingState(currentQuiz, newTime)
                /\ intervalArmed' = timerEffect(currentQuiz')
                /\ lastOp' = [op |-> "tick", arg |-> << >>, ret |-> NULL]
                /\ UNCHANGED <<questionsQuery, bank, storage, selection, quizHistory, clock>>

\* the interval callback testing newTime < 0 in place of newTime <= 0: the
\* tick that reaches 0 only stores the time
Tick_LateTimeUp ==
    /\ intervalArmed
    /\ HasQuiz
    /\ Quiz.timeRemaining \in FollowedTimes
    /\ LET newTime == Quiz.timeRemaining - 1
       IN  IF newTime < 0
           THEN /\ clock < MaxClock
                /\ \E outcome \in WriteOutcomes :
                      endQuizEffect(updateTimeRemainingState(currentQuiz, 0), outcome, "timeUp")
                /\ intervalArmed' = timerEffect(currentQuiz')
                /\ UNCHANGED <<questionsQuery, bank, selection>>
           ELSE /\ currentQuiz' = updateTimeRemainingState(currentQuiz, newTime)
                /\ intervalArmed' = timerEffect(currentQuiz')
                /\ lastOp' = [op |-> "tick", arg |-> << >>, ret |-> NULL]
                /\ UNCHANGED <<questionsQuery, bank, storage, selection, quizHistory, clock>>

\* one firing of the interval callback of useQuizTimer
Tick ==
    /\ intervalArmed
    /\ HasQuiz
    /\ Quiz.timeRemaining \in FollowedTimes
    /\ LET newTime == Quiz.timeRemaining - 1
       IN  IF newTime <= 0
           THEN \* clearInterval; updateTimeRemaining(0); onTimeUp() -> endQuiz()
                /\ clock < MaxClock
                /\ \E outcome \in WriteOutcomes :
                      endQuizEffect(updateTimeRemainingState(currentQuiz, 0), outcome, "timeUp")
                /\ intervalArmed' = timerEffect(currentQuiz')
                /\ UNCHANGED <<questionsQuery, bank, selection>>
           ELSE /\ currentQuiz' = updateTimeRemainingState(currentQuiz, newTime)
                /\ intervalArmed' = timerEffect(currentQuiz')
                /\ lastOp' = [op |-> "tick", arg |-> << >>, ret |-> NULL]
                /\ UNCHANGED <<questionsQuery, bank, storage, selection, quizHistory, clock>>

\* the firings of the interval callback down to the next followed time, with
\* no other event in between: each lowers the time remaining by one through
\* updateTimeRemaining(newTime)
Elapse ==
    /\ intervalArmed
    /\ HasQuiz
    /\ Quiz.timeRemaining \notin FollowedTimes
    /\ \E t \in FollowedTimes :
          /\ t < Quiz.timeRemaining
          /\ \A u \in FollowedTimes : u < Quiz.timeRemaining => u <= t
          /\ currentQuiz' = updateTimeRemainingState(currentQuiz, t)
    /\ intervalArmed' = timerEffect(currentQuiz')
    /\ lastOp' = [op |-> "elapse", arg |-> << >>, ret |-> NULL]
    /\ UNCHANGED <<questionsQuery, bank, storage, selection, quizHistory, clock>>

\* clearQuiz persisting the result of the session it drops
clearQuiz_SavePartial ==
    /\ currentQuiz' = NULL
    /\ intervalArmed' = timerEffect(currentQuiz')
    /\ lastOp' = [op |-> "clearQuiz", arg |-> << >>, ret |-> NULL]
    /\ storage' = IF HasQuiz /\ ~Quiz.isCompleted
                  THEN addQuizResult(resultOf(Quiz, clock), "ok").stored
                  ELSE storage
    /\ UNCHANGED <<questionsQuery, bank, selection, quizHistory, clock>>

clearQuiz ==
    /\ currentQuiz' = NULL
    /\ intervalArmed' = timerEffect(currentQuiz')
    /\ lastOp' = [op |-> "clearQuiz", arg |-> << >>, ret |-> NULL]
    /\ UNCHANGED <<questionsQuery, bank, storage, selection, quizHistory, clock>>

refreshHistory ==
    /\ quizHistory' = getQuizHistory
    /\ lastOp' = [op |-> "refreshHistory", arg |-> << >>, ret |-> NULL]
    /\ UNCHANGED <<questionsQuery, bank, storage, selection, currentQuiz, intervalArmed, clock>>

\* the question bank a session is started from: n questions of two choices,
\* one of them correct
SmallBank(n) ==
    [i \in 1..n |->
        MakeQuestion(i,
                     TOPICS[((i - 1) % Len(TOPICS)) + 1].id,
                     IF i % 2 = 1 THEN "situational" ELSE "knowledge",
                     [c \in 1..2 |-> [label |-> c - 1, isCorrect |-> (c - 1 = i % 2)]])]

Init ==
    /\ bank \in {SmallBank(n) : n \in BankSizes}
    /\ storage = DEFAULT_QUIZ_HISTORY
    /\ selection = << >>
    /\ currentQuiz = NULL
    /\ quizHistory = storage
    /\ intervalArmed = FALSE
    /\ clock = 0
    /\ lastOp = NoOp
    /\ questionsQuery = LoadedQuery

Next ==
    \/ startQuiz
    \/ \E input \in AnswerInputs : answerQuestion(input[1], input[2])
    \/ \E index \in NavInputs : goToQuestion(index)
    \/ nextQuestion
    \/ prevQuestion
    \/ pauseQuiz
    \/ resumeQuiz
    \/ Tick
    \/ Elapse
    \/ endQuiz
    \/ clearQuiz
    \/ refreshHistory

Spec == Init /\ [][Next]_vars

\* The store under the timer's scheduling, on a bank of one question:
\* setInterval fires the callback of an armed interval (Tick, and Elapse for
\* the ticks taken in one step); a pause clears the interval and a resume arms
\* a new one, so the callback is owed a firing when the interval is armed again
\* and again; the user resumes a session in place of leaving it paused.
LiveInit ==
    /\ bank = SmallBank(1)
    /\ storage = DEFAULT_QUIZ_HISTORY
    /\ selection = << >>
    /\ currentQuiz = NULL
    /\ quizHistory = storage
    /\ intervalArmed = FALSE
    /\ clock = 0
    /\ lastOp = NoOp
    /\ questionsQuery = LoadedQuery

LiveNext ==
    \/ startQuiz
    \/ \E input \in AnswerInputs : answerQuestion(input[1], input[2])
    \/ nextQuestion
    \/ pauseQuiz
    \/ resumeQuiz
    \/ Tick
    \/ Elapse
    \/ endQuiz
    \/ clearQuiz

LiveSpec ==
    /\ LiveInit
    /\ [][LiveNext]_vars
    /\ SF_vars(Tick)
    /\ SF_vars(Elapse)
    /\ WF_vars(resumeQuiz)

----------------------------------------------------------------------------
(* Sessions the scorer is applied to: n questions of the quota-exact bank, *)
(* the first c of them answered correctly and the others wrongly, ended    *)
(* by endQuiz.                                                             *)

ScoreSizes == {0, 3, 7, 40}

ExactBank ==
    LET tagged == TaggedBank([t \in 1..Len(TOPICS) |-> Profile("exact", 1, t)], 1, 1)
    IN  [i \in 1..Len(tagged) |-> tagged[i].q]

\* the (0-based) shuffled position of a choice of question q that is, or is not, correct
ChoiceWhere(q, correct) ==
    (CHOOSE p \in 1..Len(q.shuffledChoices) : q.shuffledChoices[p].isCorrect = correct) - 1

\* answerQuestion(k - 1, choices[k]), then the same for the later questions
RECURSIVE answerAll(_, _, _)
answerAll(quiz, choices, k) ==
    IF k > Len(choices) \/ quiz = NULL THEN quiz
    ELSE answerAll(answerQuestionState(quiz, k - 1, choices[k]), choices, k + 1)

\* a bank in which the second question carries the id of the first: the
\* schema of the question files asks for a non-empty id, not for a new one
WithRepeatedId(questions) == [questions EXCEPT ![2].id = questions[1].id]

ScoreInit ==
    \E n \in ScoreSizes, c \in 0..40, time \in {timeLimit, 1}, repeated \in BOOLEAN :
       LET asked == IF repeated THEN WithRepeatedId(SubSeq(ExactBank, 1, n))
                    ELSE SubSeq(ExactBank, 1, n)
           questions == mapShuffleChoices(asked, 0, 0)
           choices == [i \in 1..n |-> ChoiceWhere(questions[i], i <= c)]
           fresh == Some([id |-> 0, startedAt |-> 0, completedAt |-> NULL,
                          questions |-> questions,
                          answers |-> [i \in 1..n |->
                                         [questionId |-> questions[i].id,
                                          selectedChoiceIndex |-> NULL,
                                          isCorrect |-> FALSE,
                                          timeTaken |-> 0]],
                          currentQuestionIndex |-> 0,
                          timeRemaining |-> time,
                          isCompleted |-> FALSE,
                          isPaused |-> FALSE])
       IN  /\ c <= n
           /\ repeated => n \in {3, 7}
           /\ bank = asked
           /\ storage = [DEFAULT_QUIZ_HISTORY EXCEPT
                            !.usedQuestionSets = <<[i \in 1..n |-> questions[i].id]>>]
           /\ selection = asked
           /\ currentQuiz = answerAll(fresh, choices, 1)
           /\ quizHistory = DEFAULT_QUIZ_HISTORY
           /\ intervalArmed = TRUE
           /\ clock = 1
           /\ lastOp = NoOp
           /\ questionsQuery = LoadedQuery

ScoreNext == endQuiz \/ Tick

ScoreSpec == ScoreInit /\ [][ScoreNext]_vars

----------------------------------------------------------------------------
(* shuffle and shuffleChoices applied to one question: its choices are the *)
(* sequence S given to shuffle, and the question is the Q given to         *)
(* shuffleChoices.  Every random stream is drawn.                          *)

MaxChoices == 4

ChoiceValues ==
    {[label |-> 0, isCorrect |-> TRUE], [label |-> 1, isCorrect |-> FALSE],
     [label |-> 2, isCorrect |-> FALSE]}

ShuffleSeeds == 0..(RandDen - 1)

ShuffleInit ==
    \E n \in 0..MaxChoices :
       \E choices \in [1..n -> ChoiceValues] :
          /\ bank = <<MakeQuestion(1, TOPICS[1].id, "knowledge", choices)>>
          /\ storage = DEFAULT_QUIZ_HISTORY
          /\ selection = << >>
          /\ currentQuiz = NULL
          /\ quizHistory = DEFAULT_QUIZ_HISTORY
          /\ intervalArmed = FALSE
          /\ clock = 0
          /\ lastOp = NoOp
          /\ questionsQuery = LoadedQuery

\* a call shuffle(S) with S the choices of the question; the array passed is
\* copied, never written
Shuffle ==
    \E seed \in ShuffleSeeds :
       /\ selection' = shuffle(bank[1].choices, seed, 0)
       /\ lastOp' = [op |-> "shuffle", arg |-> <<seed>>, ret |-> NULL]
       /\ UNCHANGED <<questionsQuery, bank, storage, currentQuiz, quizHistory, intervalArmed, clock>>

\* a call shuffleChoices(Q)
ShuffleChoices ==
    \E seed \in ShuffleSeeds :
       /\ selection' = <<shuffleChoices(bank[1], seed, 0)>>
       /\ lastOp' = [op |-> "shuffleChoices", arg |-> <<seed>>, ret |-> NULL]
       /\ UNCHANGED <<questionsQuery, bank, storage, currentQuiz, quizHistory, intervalArmed, clock>>

ShuffleNext == Shuffle \/ ShuffleChoices

ShuffleSpec == ShuffleInit /\ [][ShuffleNext]_vars

----------------------------------------------------------------------------
(* The history store with a long log: stored histories of up to 21 results *)
(* and 10 recorded sets, quizzes started, ended and dropped on top of      *)
(* them, histories imported, and the log read.                             *)

HistoryResults == {0, 21}    \* numbers of results already stored
HistorySets == {0, 10}       \* numbers of sets already recorded

\* a result of an earlier quiz, ended at date k < 0
EarlierResult(k) ==
    LET score == (7 * (0 - k)) % 41
    IN  [id |-> k, date |-> k, score |-> score, totalQuestions |-> 40,
         percentage |-> calculatePercentage(score, 40),
         passed |-> calculatePercentage(score, 40) >= passingScore100,
         timeTaken |-> 60 * (0 - k), topicPerformance |-> << >>]

\* the stored history after r earlier quizzes, the last s sets recorded
EarlierHistory(r, s) ==
    [results |-> [i \in 1..r |-> EarlierResult(i - r - 1)],
     usedQuestionSets |-> [j \in 1..s |-> <<100 + j>>],
     lastQuizDate |-> IF r = 0 THEN NULL ELSE Some(0 - 1)]

\* the JSON text exportQuizHistory gives for a history
JsonOf(history) ==
    [syntax |-> "valid",
     root |-> [results |-> JArray(history.results),
               usedQuestionSets |-> JArray(history.usedQuestionSets),
               lastQuizDate |-> IF history.lastQuizDate = NULL THEN JNull
                                ELSE JString(history.lastQuizDate[1])]]

\* a history file written by hand: results out of date order, 11 sets
UnorderedHistory ==
    [results |-> <<EarlierResult(0 - 5), EarlierResult(0 - 9), EarlierResult(0 - 7)>>,
     usedQuestionSets |-> [j \in 1..11 |-> <<200 + j>>],
     lastQuizDate |-> Some(0 - 5)]

\* the strings given to importQuizHistory
ImportInputs ==
    { [syntax |-> "invalid"],
      [syntax |-> "valid",
       root |-> [usedQuestionSets |-> JArray(<< >>), lastQuizDate |-> JNull]],
      [syntax |-> "valid",
       root |-> [results |-> JString("none"), usedQuestionSets |-> JArray(<< >>),
                 lastQuizDate |-> JNull]],
      [syntax |-> "valid",
       root |-> [results |-> JArray(<<[EarlierResult(0 - 1) EXCEPT !.percentage = 150]>>),
                 usedQuestionSets |-> JArray(<< >>), lastQuizDate |-> JNull]],
      JsonOf(UnorderedHistory),
      JsonOf(DEFAULT_QUIZ_HISTORY) }

HistoryInit ==
    \E r \in HistoryResults, s \in HistorySets :
       /\ bank = SmallBank(2)
       /\ storage = EarlierHistory(r, s)
       /\ selection = << >>
       /\ currentQuiz = NULL
       /\ quizHistory = storage
       /\ intervalArmed = FALSE
       /\ clock = 0
       /\ lastOp = NoOp
       /\ questionsQuery = LoadedQuery

\* a call importQuizHistory(jsonString); imports are followed while no
\* session is current
ImportQuizHistory ==
    \E jsonString \in ImportInputs, outcome \in WriteOutcomes :
       LET imported == importQuizHistory(jsonString, outcome)
       IN  /\ ~HasQuiz
           /\ storage' = imported.stored
           /\ lastOp' = [op |-> "importQuizHistory", arg |-> <<jsonString>>,
                         ret |-> Some(imported.ret), save |-> imported.save]
           /\ UNCHANGED <<questionsQuery, bank, selection, currentQuiz, quizHistory, intervalArmed, clock>>

\* a call getQuizResults()
GetQuizResults ==
    /\ lastOp' = [op |-> "getQuizResults", arg |-> << >>, ret |-> Some(getQuizResults)]
    /\ UNCHANGED <<questionsQuery, bank, storage, selection, currentQuiz, quizHistory, intervalArmed, clock>>

\* a call getQuizStatistics()
GetQuizStatistics ==
    /\ lastOp' = [op |-> "getQuizStatistics", arg |-> << >>,
                  ret |-> Some(getQuizStatistics)]
    /\ UNCHANGED <<questionsQuery, bank, storage, selection, currentQuiz, quizHistory, intervalArmed, clock>>

HistoryNext ==
    \/ startQuiz
    \/ endQuiz
    \/ clearQuiz
    \/ ImportQuizHistory
    \/ GetQuizResults
    \/ GetQuizStatistics

HistorySpec == HistoryInit /\ [][HistoryNext]_vars

----------------------------------------------------------------------------
(* Loading the question bank: fetchQuestions as the queryFn of the         *)
(* ['questions'] query, run and retried by the query's retryer.            *)

\* how the fetch of one file goes: fetched with valid records; fetched with a
\* record QuestionSchema refuses; answered with a status that is not ok; not
\* answered, or answered with a body that is no JSON
FileOutcomes == {"ok", "invalidRecord", "httpError", "networkError"}

NO_FILES_MESSAGE == "Failed to load any question files"
INVALID_DATA_MESSAGE == "Invalid question data format. Please check the question files."

\* QuestionSchema, on the fields the questions of the model carry
validQuestion(q) ==
    /\ q.type \in {"knowledge", "situational"}
    /\ q.topic \in TopicIds
    /\ Len(q.choices) \in 2..6
    /\ \E i \in 1..Len(q.choices) : q.choices[i].isCorrect

\* what res.json() gives for file number f
FileData(f, outcome) ==
    LET topic == TOPICS[((f - 1) % Len(TOPICS)) + 1].id
    IN  IF outcome = "ok"
        THEN <<MakeQuestion(2 * f - 1, topic, "knowledge", TwoChoices),
               MakeQuestion(2 * f, topic, "situational", TwoChoices)>>
        ELSE <<MakeQuestion(2 * f - 1, topic, "knowledge", TwoChoices),
               MakeQuestion(2 * f, topic, "situational", <<TwoChoices[1]>>)>>

\* fetchQuestions: the questions returned or the message of the Error thrown
fetchQuestions(outcomes) ==
    LET fetched == SelectSeq([f \in 1..Len(outcomes) |-> f],
                             LAMBDA f : outcomes[f] \in {"ok", "invalidRecord"})
        loadedFiles == [k \in 1..Len(fetched) |-> FileData(fetched[k], outcomes[fetched[k]])]
        allQuestions == Flat(loadedFiles)
    IN  IF Len(loadedFiles) = 0
        THEN [threw |-> NO_FILES_MESSAGE]
        ELSE IF \A i \in 1..Len(allQuestions) : validQuestion(allQuestions[i])
        THEN [threw |-> "none", value |-> allQuestions]
        ELSE [threw |-> INVALID_DATA_MESSAGE]

\* the retry option without its test of the message: every failure is retried
retry_EveryError(failureCount, message) == failureCount < 2

\* the retry option of useQuestions
retry(failureCount, message) ==
    IF message = INVALID_DATA_MESSAGE THEN FALSE ELSE failureCount < 2

\* one run of the queryFn by the retryer: success resolves the query, a
\* failure is retried when retry(failureCount, error) says so and ends the
\* query in error otherwise
FetchQuestions ==
    /\ questionsQuery.status = "pending"
    /\ \E outcomes \in [1..MaxFiles -> FileOutcomes] :
          LET fetched == fetchQuestions(outcomes)
          IN  /\ IF fetched.threw = "none"
                 THEN /\ questionsQuery' = [questionsQuery EXCEPT !.status = "success",
                                                                   !.error = ""]
                      /\ bank' = fetched.value
                 ELSE IF retry(questionsQuery.failureCount, fetched.threw)
                 THEN /\ questionsQuery' =
                            [questionsQuery EXCEPT !.failureCount = @ + 1,
                                                   !.error = fetched.threw]
                      /\ bank' = bank
                 ELSE /\ questionsQuery' = [questionsQuery EXCEPT !.status = "error",
                                                                   !.error = fetched.threw]
                      /\ bank' = bank
              /\ lastOp' = [op |-> "fetchQuestions", arg |-> <<outcomes>>, ret |-> NULL]
    /\ UNCHANGED <<storage, selection, currentQuiz, quizHistory, intervalArmed, clock>>

LoadInit ==
    /\ questionsQuery = [status |-> "pending", failureCount |-> 0, error |-> ""]
    /\ bank = << >>
    /\ storage = DEFAULT_QUIZ_HISTORY
    /\ selection = << >>
    /\ currentQuiz = NULL
    /\ quizHistory = DEFAULT_QUIZ_HISTORY
    /\ intervalArmed = FALSE
    /\ clock = 0
    /\ lastOp = [op |-> "mount", arg |-> << >>, ret |-> NULL]

LoadNext == FetchQuestions

LoadSpec == LoadInit /\ [][LoadNext]_vars

----------------------------------------------------------------------------
(* The quiz page: choices selected by a click on a rendered choice or by   *)
(* the keys 1 to 4, on questions with every number of choices the schema   *)
(* of the question files allows.                                           *)

MIN_CHOICES == 2
MAX_CHOICES == 6

SelectKeys == {1, 2, 3, 4}      \* the keys '1' to '4'

\* a question with n choices, the first of them correct
ChoicesOf(n) == [i \in 1..n |-> [label |-> i - 1, isCorrect |-> i = 1]]

\* QuizPage.handleSelectChoice
handleSelectChoice(choiceIndex) ==
    IF ~HasQuiz \/ Quiz.isCompleted THEN currentQuiz
    ELSE answerQuestionState(currentQuiz, Quiz.currentQuestionIndex, choiceIndex)

\* a click on one of the rendered choices of the current question
ClickChoice ==
    /\ HasQuiz
    /\ Quiz.currentQuestionIndex \in 0..(Len(Quiz.questions) - 1)
    /\ \E index \in 0..(Len(At(Quiz.questions, Quiz.currentQuestionIndex).shuffledChoices) - 1) :
          /\ currentQuiz' = handleSelectChoice(index)
          /\ lastOp' = [op |-> "clickChoice", arg |-> <<index>>, ret |-> NULL]
    /\ intervalArmed' = timerEffect(currentQuiz')
    /\ UNCHANGED <<questionsQuery, bank, storage, selection, quizHistory, clock>>

\* useKeyboardNavigation: a key '1' to '4' gives onSelect(parseInt(key) - 1)
KeySelect ==
    /\ HasQuiz
    /\ ~Quiz.isCompleted
    /\ \E key \in SelectKeys :
          /\ currentQuiz' = handleSelectChoice(key - 1)
          /\ lastOp' = [op |-> "keySelect", arg |-> <<key>>, ret |-> NULL]
    /\ intervalArmed' = timerEffect(currentQuiz')
    /\ UNCHANGED <<questionsQuery, bank, storage, selection, quizHistory, clock>>

\* a session on two questions, the first with n choices
AnswerInit ==
    \E n \in MIN_CHOICES..MAX_CHOICES :
       LET asked == <<MakeQuestion(1, TOPICS[1].id, "knowledge", ChoicesOf(n)),
                      MakeQuestion(2, TOPICS[2].id, "knowledge", TwoChoices)>>
           questions == mapShuffleChoices(asked, 0, 0)
       IN  /\ bank = asked
           /\ storage = [DEFAULT_QUIZ_HISTORY EXCEPT !.usedQuestionSets = <<<<1, 2>>>>]
           /\ selection = asked
           /\ currentQuiz = Some([id |-> 0, startedAt |-> 0, completedAt |-> NULL,
                                  questions |-> questions,
                                  answers |-> [i \in 1..2 |->
                                                 [questionId |-> questions[i].id,
                                                  selectedChoiceIndex |-> NULL,
                                                  isCorrect |-> FALSE,
                                                  timeTaken |-> 0]],
                                  currentQuestionIndex |-> 0,
                                  timeRemaining |-> timeLimit,
                                  isCompleted |-> FALSE,
                                  isPaused |-> FALSE])
           /\ quizHistory = DEFAULT_QUIZ_HISTORY
           /\ intervalArmed = TRUE
           /\ clock = 1
           /\ lastOp = NoOp
           /\ questionsQuery = LoadedQuery

AnswerNext ==
    \/ ClickChoice
    \/ KeySelect
    \/ nextQuestion
    \/ prevQuestion

AnswerSpec == AnswerInit /\ [][AnswerNext]_vars

----------------------------------------------------------------------------
(* Properties of selectQuestions, checked under SelectSpec *)

totalQuestions == 40

Selected == lastOp.op = "selectQuestions"

OfTopic(s, topic) == SelectSeq(s, LAMBDA q : q.topic = topic)
OfTopicType(s, topic, type) == SelectSeq(s, LAMBDA q : q.topic = topic /\ q.type = type)

RecentIds == Range(Flat(LastN(storage.usedQuestionSets, 3)))
IsFresh(q) == q.id \notin RecentIds

SubQuotaTopics == {t \in 1..Len(TOPICS) : SITUATIONAL_TOPIC_CONFIG[TOPICS[t].id] > 0}
SubQuota(t) == SITUATIONAL_TOPIC_CONFIG[TOPICS[t].id]
Quota(t) == TOPICS[t].targetCount

EveryTopicHasQuota ==
    \A t \in 1..Len(TOPICS) : Len(OfTopic(bank, TOPICS[t].id)) >= Quota(t)

QuotasReproduced ==
    /\ Len(selection) = totalQuestions
    /\ \A t \in 1..Len(TOPICS) : Len(OfTopic(selection, TOPICS[t].id)) = Quota(t)

\* C2 as stated: a bank with at least the quota of every topic and no recent
\* sets yields 40 questions, each topic at its quota.
C2_Original ==
    (Selected /\ storage.usedQuestionSets = << >> /\ EveryTopicHasQuota)
        => QuotasReproduced

\* the knowledge questions of a sub-quota topic cover what the situational
\* slice (at most the sub-quota) leaves of the quota
KnowledgeCoversRest ==
    \A t \in SubQuotaTopics :
        Len(OfTopicType(bank, TOPICS[t].id, "knowledge"))
            >= Quota(t) - Min(SubQuota(t), Len(OfTopicType(bank, TOPICS[t].id, "situational")))

\* C2 (amended): a bank with at least the quota of every topic, in which every
\* sub-quota topic has at least quota - min(k, situational count) knowledge
\* questions, and no recent sets, yields 40 questions, each topic at its quota.
C2_QuotaSum ==
    (Selected /\ storage.usedQuestionSets = << >> /\ EveryTopicHasQuota
        /\ KnowledgeCoversRest)
        => QuotasReproduced

C2_Witness ==
    /\ Selected /\ storage.usedQuestionSets = << >>
    /\ EveryTopicHasQuota /\ KnowledgeCoversRest
    /\ Len(bank) > totalQuestions
    /\ QuotasReproduced

AmpleTypes(t) ==
    /\ Len(OfTopicType(bank, TOPICS[t].id, "situational")) >= SubQuota(t)
    /\ Len(OfTopicType(bank, TOPICS[t].id, "knowledge")) >= Quota(t) - SubQuota(t)

\* C3: a sub-quota topic with at least k situational and quota - k knowledge
\* questions contributes exactly k situational and quota - k knowledge
\* questions, whatever the recent sets are.
C3_SituationalSubQuota ==
    Selected =>
        \A t \in SubQuotaTopics :
            AmpleTypes(t) =>
                /\ Len(OfTopicType(selection, TOPICS[t].id, "situational")) = SubQuota(t)
                /\ Len(OfTopicType(selection, TOPICS[t].id, "knowledge")) = Quota(t) - SubQuota(t)

C3_Witness ==
    /\ Selected
    /\ \E t \in SubQuotaTopics :
          /\ AmpleTypes(t)
          /\ Len(OfTopicType(bank, TOPICS[t].id, "situational")) > SubQuota(t)
          /\ \E i \in 1..Len(bank) : bank[i].topic = TOPICS[t].id /\ ~IsFresh(bank[i])
          /\ Len(OfTopicType(selection, TOPICS[t].id, "situational")) = SubQuota(t)
          /\ Len(OfTopic(selection, TOPICS[t].id)) = Quota(t)

FreshOf(t) == SelectSeq(OfTopic(bank, TOPICS[t].id), IsFresh)
UsedOf(t) == SelectSeq(OfTopic(bank, TOPICS[t].id), LAMBDA q : ~IsFresh(q))

QuotaFreshQuotaUsed(t) == Len(FreshOf(t)) = Quota(t) /\ Len(UsedOf(t)) = Quota(t)

OnlyFreshSelected(t) ==
    \A i \in 1..Len(selection) : selection[i].topic = TOPICS[t].id => IsFresh(selection[i])

\* C4 as stated: for every topic with exactly quota fresh and quota used
\* questions, only fresh questions of that topic are returned.
C4_Original ==
    Selected =>
        \A t \in 1..Len(TOPICS) : QuotaFreshQuotaUsed(t) => OnlyFreshSelected(t)

FreshCoversTypes(t) ==
    t \in SubQuotaTopics =>
        /\ Len(SelectSeq(FreshOf(t), LAMBDA q : q.type = "situational")) = SubQuota(t)
        /\ Len(SelectSeq(FreshOf(t), LAMBDA q : q.type = "knowledge")) = Quota(t) - SubQuota(t)

\* C4 (amended): for a topic with exactly quota fresh and quota used questions
\* only fresh questions are returned, provided that, when the topic has a
\* situational sub-quota k, its fresh questions are k situational and
\* quota - k knowledge questions.
C4_FreshnessBias ==
    Selected =>
        \A t \in 1..Len(TOPICS) :
            (QuotaFreshQuotaUsed(t) /\ FreshCoversTypes(t)) => OnlyFreshSelected(t)

C4_Witness ==
    /\ Selected
    /\ \E t \in SubQuotaTopics :
          /\ QuotaFreshQuotaUsed(t) /\ FreshCoversTypes(t)
          /\ Len(OfTopic(selection, TOPICS[t].id)) = Quota(t)
    /\ \E t \in (1..Len(TOPICS)) \ SubQuotaTopics :
          /\ QuotaFreshQuotaUsed(t)
          /\ Len(OfTopic(selection, TOPICS[t].id)) = Quota(t)

DistinctIds(s) == \A i, j \in 1..Len(s) : s[i].id = s[j].id => i = j

\* C5: for a bank with pairwise distinct ids the returned questions have
\* pairwise distinct ids, are members of the bank and number at most 40.
C5_NoRepeatedQuestion ==
    (Selected /\ DistinctIds(bank)) =>
        /\ DistinctIds(selection)
        /\ Range(selection) \subseteq Range(bank)
        /\ Len(selection) <= totalQuestions

C5_Witness ==
    /\ Selected /\ DistinctIds(bank)
    /\ Len(bank) > 2 * totalQuestions - 1
    /\ Len(selection) = totalQuestions
    /\ \E i \in 1..Len(selection) : ~IsFresh(selection[i])

----------------------------------------------------------------------------
(* Properties of the store actions, checked under Spec and ScoreSpec *)

\* the results recorded for the session with this id
ResultsOf(history, id) == {i \in 1..Len(history.results) : history.results[i].id = id}

\* C1: ending is effective at most once per session: under any order of the
\* time-up callback and the submit action, the stored history and the
\* store's history each hold at most one result whose id is the current
\* session's id.
C1_EndOnce ==
    HasQuiz =>
       /\ Cardinality(ResultsOf(storage, Quiz.id)) <= 1
       /\ Cardinality(ResultsOf(quizHistory, Quiz.id)) <= 1

\* is percentage an integer nearest to 100 * score / total (total > 0)
NearestPercent(percentage, score, total) ==
    LET diff == percentage * total - 100 * score
    IN  2 * (IF diff < 0 THEN -diff ELSE diff) <= total

\* C6: the result endQuiz returns has score = the number of answers marked
\* correct, percentage = 100 * score / total rounded to a nearest integer
\* (0 for a session without questions) and passed = (percentage >= 80); a
\* 40-question session passes exactly when score >= 32, 40 correct give 100
\* and 32 correct give 80.
C6_ScoringRule ==
    (lastOp.op \in {"endQuiz", "timeUp"} /\ lastOp.ret # NULL /\ HasQuiz) =>
       LET r == lastOp.ret[1]
           total == Len(Quiz.questions)
           marked == Cardinality({i \in 1..Len(Quiz.answers) : Quiz.answers[i].isCorrect})
       IN  /\ r.score = marked
           /\ r.totalQuestions = total
           /\ total = 0 => r.percentage = 0
           /\ total > 0 => NearestPercent(r.percentage, r.score, total)
           /\ r.passed <=> (r.percentage >= 80)
           /\ total = totalQuestions =>
                 /\ r.passed <=> (r.score >= 32)
                 /\ r.score = 40 => r.percentage = 100
                 /\ r.score = 32 => r.percentage = 80

\* a 40-question session with exactly 32 correct answers was ended and passed
C6_Witness ==
    /\ lastOp.op = "endQuiz"
    /\ lastOp.ret # NULL
    /\ lastOp.ret[1].totalQuestions = totalQuestions
    /\ lastOp.ret[1].score = 32
    /\ lastOp.ret[1].passed

\* the events C7 names
SessionEvents ==
    {"answerQuestion", "goToQuestion", "nextQuestion", "prevQuestion",
     "tick", "elapse", "pauseQuiz", "resumeQuiz"}

\* C7: a completed session is immutable: an answer, goTo, next, prev, time
\* update, pause or resume on a completed session leaves all its fields
\* unchanged.
C7_CompletedImmutable ==
    [][(HasQuiz /\ Quiz.isCompleted /\ lastOp'.op \in SessionEvents)
          => currentQuiz' = currentQuiz]_vars

\* C8 (state part): the time remaining is within 0..2700 and a session whose
\* time remaining is 0 is completed.
TimeWithinLimit ==
    HasQuiz => /\ Quiz.timeRemaining \in 0..(45 * 60)
               /\ Quiz.timeRemaining = 0 => Quiz.isCompleted

\* C8 (step part): a tick happens on an in-progress, unpaused session and
\* lowers the time remaining by exactly 1; the tick reaching 0 completes
\* the session in that step.
TickLowersByOne ==
    (lastOp'.op \in {"tick", "timeUp"}) =>
       /\ HasQuiz /\ ~Quiz.isCompleted /\ ~Quiz.isPaused
       /\ currentQuiz' # NULL
       /\ Quiz'.timeRemaining = Quiz.timeRemaining - 1
       /\ Quiz'.timeRemaining = 0 => Quiz'.isCompleted
       /\ lastOp'.op = "timeUp" <=> Quiz'.timeRemaining = 0

\* C8: each tick lowers timeRemaining by exactly 1, timeRemaining stays
\* within 0..2700, and the tick bringing it to 0 ends the session in the
\* same step: no state has a current session at 0 that is not completed.
C8_TimerTick == [](TimeWithinLimit) /\ [][TickLowersByOne]_vars

\* the time-up tick has just ended the session
C8_Witness ==
    /\ lastOp.op = "timeUp"
    /\ HasQuiz
    /\ Quiz.timeRemaining = 0
    /\ Quiz.isCompleted
    /\ Len(Quiz.questions) = 2

Clamp(i, length) == IF i < 0 THEN 0 ELSE IF i > length - 1 THEN length - 1 ELSE i

\* C9 (state part): the current index of a session with questions is within
\* 0..length-1.
IndexWithinRange ==
    (HasQuiz /\ Len(Quiz.questions) >= 1) =>
        Quiz.currentQuestionIndex \in 0..(Len(Quiz.questions) - 1)

\* C9 (step part): goTo(i) lands on i clamped, next at the last question and
\* prev at the first leave the index unchanged, and no other field changes.
NavigationStep ==
    (HasQuiz /\ Len(Quiz.questions) >= 1
       /\ lastOp'.op \in {"goToQuestion", "nextQuestion", "prevQuestion"}) =>
       LET length == Len(Quiz.questions)
           index == Quiz.currentQuestionIndex
       IN  /\ currentQuiz' # NULL
           /\ Quiz' = [Quiz EXCEPT !.currentQuestionIndex = Quiz'.currentQuestionIndex]
           /\ storage' = storage /\ quizHistory' = quizHistory
           /\ lastOp'.op = "goToQuestion" =>
                 Quiz'.currentQuestionIndex = Clamp(lastOp'.arg[1], length)
           /\ lastOp'.op = "nextQuestion" =>
                 Quiz'.currentQuestionIndex = IF index = length - 1 THEN index ELSE index + 1
           /\ lastOp'.op = "prevQuestion" =>
                 Quiz'.currentQuestionIndex = IF index = 0 THEN index ELSE index - 1

\* C9: for a session with at least one question the index stays within
\* 0..length-1 under goTo, next and prev; goTo clamps, next and prev do not
\* wrap around, and navigation changes only currentQuestionIndex.
C9_NavigationClamped == [](IndexWithinRange) /\ [][NavigationStep]_vars

\* next was issued at the last question of a two-question session
C9_Witness ==
    /\ lastOp.op = "nextQuestion"
    /\ HasQuiz
    /\ Len(Quiz.questions) = 2
    /\ Quiz.currentQuestionIndex = 1
    /\ ~Quiz.isCompleted

\* C10: answerQuestion with a question index outside 0..length-1, or with
\* no current session, leaves the session, the store's history and the
\* stored history unchanged.
C10_AnswerOutOfRange ==
    [][(/\ lastOp'.op = "answerQuestion"
        /\ \/ ~HasQuiz
           \/ lastOp'.arg[1] \notin 0..(Len(Quiz.questions) - 1))
          => /\ currentQuiz' = currentQuiz
             /\ quizHistory' = quizHistory
             /\ storage' = storage]_vars

\* an answer was issued at index length of a session in progress
C10_Witness ==
    /\ lastOp.op = "answerQuestion"
    /\ HasQuiz
    /\ ~Quiz.isCompleted
    /\ Len(Quiz.questions) = 2
    /\ lastOp.arg[1] = 2
    /\ \A i \in 1..2 : Quiz.answers[i].selectedChoiceIndex = NULL

----------------------------------------------------------------------------
(* Properties of shuffle and shuffleChoices, checked under ShuffleSpec *)

\* the number of positions of s holding x
Occurrences(s, x) == Cardinality({i \in 1..Len(s) : s[i] = x})

\* C18: for R = shuffleChoices(Q), R.shuffledChoices[R.originalToShuffledMap[i]]
\* is Q.choices[i] for every i in 0..n-1, originalToShuffledMap is a
\* bijection on 0..n-1, and the choices of Q are kept as they were.
C18_ChoiceMapRoundTrip ==
    (lastOp.op = "shuffleChoices") =>
       LET Q == bank[1]
           R == selection[1]
           n == Len(Q.choices)
       IN  /\ R.choices = Q.choices
           /\ Len(R.shuffledChoices) = n
           /\ Len(R.originalToShuffledMap) = n
           /\ \A i \in 0..(n - 1) :
                 /\ At(R.originalToShuffledMap, i) \in 0..(n - 1)
                 /\ At(R.shuffledChoices, At(R.originalToShuffledMap, i)) = At(Q.choices, i)
           /\ \A i, k \in 0..(n - 1) :
                 At(R.originalToShuffledMap, i) = At(R.originalToShuffledMap, k) => i = k

\* a question of three distinct choices was shuffled into a cyclic rotation
C18_Witness ==
    /\ lastOp.op = "shuffleChoices"
    /\ Len(bank[1].choices) = 3
    /\ \A i, k \in 1..3 : bank[1].choices[i] = bank[1].choices[k] => i = k
    /\ \A i \in 0..2 : At(selection[1].originalToShuffledMap, i) = (i + 1) % 3

\* C19: shuffle(S) has the length and the multiset of elements of S, leaves
\* S as it was, and returns an empty or one-element S unchanged.
C19_ShufflePermutation ==
    (lastOp.op = "shuffle") =>
       LET S == bank[1].choices
       IN  /\ Len(selection) = Len(S)
           /\ \A x \in ChoiceValues : Occurrences(selection, x) = Occurrences(S, x)
           /\ Len(S) <= 1 => selection = S

\* a sequence of four elements, two of them equal, came back reordered
C19_Witness ==
    /\ lastOp.op = "shuffle"
    /\ Len(bank[1].choices) = 4
    /\ bank[1].choices[1] = bank[1].choices[2]
    /\ bank[1].choices[3] # bank[1].choices[4]
    /\ selection # bank[1].choices
    /\ selection[1] = bank[1].choices[4]

----------------------------------------------------------------------------
(* Properties of the quiz store and the history store, checked under       *)
(* HistorySpec                                                             *)

IdsOf(questions) == [i \in 1..Len(questions) |-> questions[i].id]

IsSuffix(s, t) == Len(s) <= Len(t) /\ s = SubSeq(t, Len(t) - Len(s) + 1, Len(t))

\* the session a startQuiz step creates: in progress, at question 0, the
\* full time left, one unanswered answer per question, and questions that
\* are the selection made against the sets recorded before the step
FreshSession ==
    /\ currentQuiz' # NULL
    /\ ~Quiz'.isCompleted /\ ~Quiz'.isPaused /\ Quiz'.completedAt = NULL
    /\ Quiz'.currentQuestionIndex = 0
    /\ Quiz'.timeRemaining = 2700
    /\ Len(Quiz'.answers) = Len(Quiz'.questions)
    /\ \A i \in 1..Len(Quiz'.questions) :
          /\ Quiz'.answers[i].questionId = Quiz'.questions[i].id
          /\ Quiz'.answers[i].selectedChoiceIndex = NULL
          /\ ~Quiz'.answers[i].isCorrect
    /\ \E seed \in StartSeeds :
          IdsOf(Quiz'.questions)
              = IdsOf(selectQuestions(bank, storage.usedQuestionSets, seed))

\* the stored sets end with the ids of the new session's questions
SetAppended ==
    /\ storage'.usedQuestionSets # << >>
    /\ storage'.usedQuestionSets[Len(storage'.usedQuestionSets)] = IdsOf(Quiz'.questions)
    /\ IsSuffix(storage'.usedQuestionSets,
                Append(storage.usedQuestionSets, IdsOf(Quiz'.questions)))

ResultIds(history) == {history.results[i].id : i \in 1..Len(history.results)}

\* startQuiz replaces the current session by a new one
StartReplaces ==
    (lastOp'.op = "startQuiz") =>
       /\ currentQuiz' # NULL
       /\ HasQuiz => Quiz'.id # Quiz.id

\* a result of a session of this run (ids 0, 1, ...) enters the stored
\* history only by an endQuiz on that session while it is the current one
OnlyCurrentSessionContributes ==
    \A id \in ResultIds(storage') \ ResultIds(storage) :
        id >= 0 => /\ lastOp'.op \in {"endQuiz", "timeUp"}
                   /\ HasQuiz
                   /\ id = Quiz.id

\* C12 as stated: startQuiz replaces the current session, a replaced or
\* dropped session never contributes a result, and startQuiz and clearQuiz
\* leave the results and lastQuizDate of the history unchanged.
C12_Original ==
    [][/\ StartReplaces
       /\ OnlyCurrentSessionContributes
       /\ (lastOp'.op \in {"startQuiz", "clearQuiz"}) =>
             /\ storage'.results = storage.results
             /\ storage'.lastQuizDate = storage.lastQuizDate
             /\ quizHistory' = quizHistory]_vars

\* C12 (amended): as C12, except that a startQuiz whose save hits the quota
\* and is stored trimmed keeps only the newest 20 stored results; it adds
\* no result and leaves lastQuizDate unchanged.
C12_SingleSession ==
    [][/\ StartReplaces
       /\ OnlyCurrentSessionContributes
       /\ (lastOp'.op = "startQuiz") =>
             /\ storage'.results =
                   IF lastOp'.save.saveResult.trimmed
                   THEN LastN(storage.results, 20) ELSE storage.results
             /\ storage'.lastQuizDate = storage.lastQuizDate
             /\ quizHistory' = quizHistory
       /\ (lastOp'.op = "clearQuiz") =>
             /\ storage' = storage
             /\ quizHistory' = quizHistory]_vars

\* the second of two sessions started in a row was ended: only it has a result
C12_Witness ==
    /\ lastOp.op = "endQuiz"
    /\ lastOp.ret # NULL
    /\ HasQuiz
    /\ Quiz.id = 1
    /\ ResultsOf(storage, 1) # {}
    /\ ResultsOf(storage, 0) = {}
    /\ Len(storage.results) = 22

NewestFirst(results) ==
    \A i \in 1..(Len(results) - 1) : results[i].date >= results[i + 1].date

\* what getQuizResults() returned is the stored log, ordered newest first
ReadNewestFirst ==
    (lastOp.op = "getQuizResults") =>
       /\ NewestFirst(lastOp.ret[1])
       /\ Len(lastOp.ret[1]) = Len(storage.results)
       /\ Range(lastOp.ret[1]) = Range(storage.results)

\* a step in which addQuizResult(r) was called: an endQuiz that produced r
AddedResult == lastOp'.op \in {"endQuiz", "timeUp"} /\ lastOp'.ret # NULL

C14_SetsCapped ==
    /\ [](Len(storage.usedQuestionSets) <= MAX_SET_HISTORY)
    /\ [][(lastOp'.op = "startQuiz" /\ lastOp'.save.saveResult.success) =>
             SetAppended]_vars

\* the save made by the last operation, if it made one
LastSave ==
    IF "save" \notin DOMAIN lastOp THEN << >>
    ELSE IF lastOp.op = "importQuizHistory" THEN lastOp.save
    ELSE <<lastOp.save>>

\* t is h cut to its newest 20 results and its newest 5 sets
CutToCaps(t, h) ==
    /\ IsSuffix(t.results, h.results)
    /\ Len(t.results) = Min(Len(h.results), 20)
    /\ IsSuffix(t.usedQuestionSets, h.usedQuestionSets)
    /\ Len(t.usedQuestionSets) = Min(Len(h.usedQuestionSets), 5)
    /\ t.lastQuizDate = h.lastQuizDate

NotHistoryShape(root) ==
    \/ "results" \notin DOMAIN root
    \/ root.results.type # "array"
    \/ \E i \in 1..Len(root.results.items) : root.results.items[i].percentage \notin 0..100

NumericFields ==
    {"totalQuizzes", "averageScore", "passRate", "bestScore", "worstScore",
     "totalQuestionsAnswered", "averageTimePerQuiz"}

\* C20: getQuizStatistics returns, on an empty log, 0 in every numeric field
\* and an empty recentTrend, and on a non-empty log a number in every numeric
\* field (the count of the results, a worst score not above the best) and a
\* trend of at most 10 percentages; it raises no error.
C20_StatisticsTotal ==
    (lastOp.op = "getQuizStatistics") =>
       LET stats == lastOp.ret[1]
       IN  /\ stats.notFinite = {}
           /\ \A f \in NumericFields : stats[f] \in Nat
           /\ stats.totalQuizzes = Len(storage.results)
           /\ storage.results = << >> =>
                 /\ \A f \in NumericFields : stats[f] = 0
                 /\ stats.recentTrend = << >>
           /\ storage.results # << >> =>
                 /\ stats.worstScore <= stats.averageScore
                 /\ stats.averageScore <= stats.bestScore
                 /\ stats.bestScore <= 100
                 /\ Len(stats.recentTrend) = Min(Len(storage.results), 10)

\* the statistics of the empty log were read
C20_Witness ==
    /\ lastOp.op = "getQuizStatistics"
    /\ storage.results = << >>
    /\ lastOp.ret[1].averageScore = 0
    /\ lastOp.ret[1].recentTrend = << >>

----------------------------------------------------------------------------
(* The under-fill policy and the freshness bias of each slice, checked     *)
(* under SelectSpec                                                        *)

BankCount(t, type) == Len(OfTopicType(bank, TOPICS[t].id, type))
SelectedCount(t, type) == Len(OfTopicType(selection, TOPICS[t].id, type))

\* a topic without sub-quota holding T questions gives min(q, T)
PlainUnderFill ==
    \A t \in (1..Len(TOPICS)) \ SubQuotaTopics :
        Len(OfTopic(selection, TOPICS[t].id))
            = Min(Quota(t), Len(OfTopic(bank, TOPICS[t].id)))

\* C21 as stated: a topic with quota q and sub-quota k holding S situational
\* and K knowledge questions gives min(k, S) situational and min(q - k, K)
\* knowledge questions; a topic without sub-quota holding T gives min(q, T).
C21_Original ==
    Selected =>
        /\ PlainUnderFill
        /\ \A t \in SubQuotaTopics :
              /\ SelectedCount(t, "situational") = Min(SubQuota(t), BankCount(t, "situational"))
              /\ SelectedCount(t, "knowledge")
                    = Min(Quota(t) - SubQuota(t), BankCount(t, "knowledge"))

\* C21 (amended): a topic with quota q and sub-quota k holding S situational
\* and K knowledge questions gives min(k, S) situational questions and
\* min(q - min(k, S), K) knowledge questions: the knowledge slice fills the
\* slots the situational slice left; a topic without sub-quota holding T
\* gives min(q, T).
C21_UnderFill ==
    Selected =>
        /\ PlainUnderFill
        /\ \A t \in SubQuotaTopics :
              /\ SelectedCount(t, "situational") = Min(SubQuota(t), BankCount(t, "situational"))
              /\ SelectedCount(t, "knowledge")
                    = Min(Quota(t) - Min(SubQuota(t), BankCount(t, "situational")),
                          BankCount(t, "knowledge"))

\* a sub-quota topic short of situational questions and rich in knowledge
\* questions was selected from
C21_Witness ==
    /\ Selected
    /\ \E t \in SubQuotaTopics :
          /\ BankCount(t, "situational") < SubQuota(t)
          /\ BankCount(t, "knowledge") > Quota(t) - SubQuota(t)
          /\ SelectedCount(t, "situational") = BankCount(t, "situational")
          /\ SelectedCount(t, "knowledge") > Quota(t) - SubQuota(t)

\* the slices the selector draws from: a whole topic without sub-quota, one
\* question type of a topic with sub-quota
InSlice(q, t, type) ==
    /\ q.topic = TOPICS[t].id
    /\ t \in SubQuotaTopics => q.type = type

SliceTypes(t) == IF t \in SubQuotaTopics THEN {"situational", "knowledge"} ELSE {"any"}

OlderIds ==
    Range(Flat(SubSeq(storage.usedQuestionSets, 1, Len(storage.usedQuestionSets) - 3)))

\* C22: in every slice a question whose id is in one of the last 3 recorded
\* sets is selected only if every question of the slice whose id is in none
\* of them is selected; an id found only in older sets counts as fresh.
C22_SliceFreshness ==
    Selected =>
        \A t \in 1..Len(TOPICS) : \A type \in SliceTypes(t) :
            (\E i \in 1..Len(selection) :
                 InSlice(selection[i], t, type) /\ selection[i].id \in RecentIds)
            => \A j \in 1..Len(bank) :
                 (InSlice(bank[j], t, type) /\ bank[j].id \notin RecentIds)
                    => bank[j] \in Range(selection)

\* with 4 recorded sets, a situational slice gave all its fresh questions,
\* whose ids are in the oldest set, and a recently used one
C22_Witness ==
    /\ Selected
    /\ Len(storage.usedQuestionSets) > 3
    /\ \E t \in SubQuotaTopics :
          /\ \E i \in 1..Len(selection) :
                /\ InSlice(selection[i], t, "situational")
                /\ selection[i].id \in RecentIds
          /\ \E i \in 1..Len(selection) :
                /\ InSlice(selection[i], t, "situational")
                /\ selection[i].id \in OlderIds \ RecentIds
          /\ \E j \in 1..Len(bank) :
                /\ InSlice(bank[j], t, "situational")
                /\ bank[j].id \in RecentIds
                /\ bank[j] \notin Range(selection)

----------------------------------------------------------------------------
(* The answers of a session, checked under Spec *)

\* is the choice at index `selected` of the shuffled choices marked correct
MarkedCorrect(question, selected) ==
    /\ selected # NULL
    /\ selected[1] \in 0..(Len(question.shuffledChoices) - 1)
    /\ question.shuffledChoices[selected[1] + 1].isCorrect

AnswersMatchQuestions ==
    HasQuiz =>
       /\ Len(Quiz.answers) = Len(Quiz.questions)
       /\ \A i \in 1..Len(Quiz.questions) :
             /\ Quiz.answers[i].questionId = Quiz.questions[i].id
             /\ Quiz.answers[i].isCorrect
                   <=> MarkedCorrect(Quiz.questions[i], Quiz.answers[i].selectedChoiceIndex)

AnswerChangesOneEntry ==
    (lastOp'.op = "answerQuestion" /\ HasQuiz /\ ~Quiz.isCompleted) =>
       /\ currentQuiz' # NULL
       /\ [Quiz' EXCEPT !.answers = Quiz.answers] = Quiz
       /\ Len(Quiz'.answers) = Len(Quiz.answers)
       /\ \A i \in 1..Len(Quiz.answers) :
             IF i = lastOp'.arg[1] + 1
             THEN /\ Quiz'.answers[i].selectedChoiceIndex = Some(lastOp'.arg[2])
                  /\ Quiz'.answers[i].questionId = Quiz.answers[i].questionId
                  /\ Quiz'.answers[i].timeTaken = Quiz.answers[i].timeTaken
             ELSE Quiz'.answers[i] = Quiz.answers[i]

\* C23: in every session state answers is as long as questions, answers[i]
\* carries the id of questions[i], and isCorrect holds exactly when a choice
\* is selected and the shuffled choice at that index is marked correct; an
\* answer on a session that is not completed changes only answers[index].
C23_AnswersConsistent ==
    /\ []AnswersMatchQuestions
    /\ [][AnswerChangesOneEntry]_vars

\* a correct answer was replaced by a wrong one, the other question answered
\* correctly
C23_Witness ==
    /\ lastOp.op = "answerQuestion"
    /\ HasQuiz
    /\ ~Quiz.isCompleted
    /\ Len(Quiz.questions) = 2
    /\ lastOp.arg[1] = 0
    /\ Quiz.answers[1].selectedChoiceIndex # NULL
    /\ ~Quiz.answers[1].isCorrect
    /\ Quiz.answers[2].isCorrect

----------------------------------------------------------------------------
(* Pause and resume, checked under Spec *)

\* pauseQuiz and resumeQuiz set isPaused and nothing else
PauseTogglesOnly ==
    (lastOp'.op \in {"pauseQuiz", "resumeQuiz"} /\ HasQuiz) =>
       /\ currentQuiz' # NULL
       /\ Quiz'.isPaused = (lastOp'.op = "pauseQuiz")
       /\ [Quiz' EXCEPT !.isPaused = Quiz.isPaused] = Quiz
       /\ storage' = storage
       /\ quizHistory' = quizHistory

\* no step from a paused session is a firing of the interval, and none
\* changes the time remaining of that session
PausedTimeFrozen ==
    (HasQuiz /\ Quiz.isPaused) =>
       /\ lastOp'.op \notin {"tick", "elapse", "timeUp"}
       /\ (currentQuiz' # NULL /\ Quiz'.id = Quiz.id) =>
              Quiz'.timeRemaining = Quiz.timeRemaining

\* the interval exists after a resume of a session in progress and not after
\* a pause
IntervalFollowsPause ==
    /\ (lastOp'.op = "pauseQuiz") => ~intervalArmed'
    /\ (lastOp'.op = "resumeQuiz" /\ HasQuiz /\ ~Quiz.isCompleted) => intervalArmed'

\* C24: pause and resume change only isPaused; while isPaused holds no tick
\* changes timeRemaining; after resume the interval runs again, from the
\* timeRemaining held at the pause.
C24_PauseFreezesTime ==
    [][PauseTogglesOnly /\ PausedTimeFrozen /\ IntervalFollowsPause]_vars

\* a session paused with 2 seconds left: the interval is gone
C24_Witness ==
    /\ lastOp.op = "pauseQuiz"
    /\ HasQuiz
    /\ ~Quiz.isCompleted
    /\ Quiz.isPaused
    /\ Quiz.timeRemaining = 2
    /\ ~intervalArmed

----------------------------------------------------------------------------
(* The breakdown by topic of a result, checked under ScoreSpec *)

\* the positions of the session's questions of a topic, and those of them
\* answered correctly
PositionsOf(topic) == {j \in 1..Len(Quiz.questions) : Quiz.questions[j].topic = topic}
CorrectPositionsOf(topic) == {j \in PositionsOf(topic) : Quiz.answers[j].isCorrect}

TopicBreakdown ==
    LET r == lastOp.ret[1]
        tp == r.topicPerformance
    IN  /\ \A i, j \in 1..Len(tp) : tp[i].topicId = tp[j].topicId => i = j
        /\ {tp[i].topicId : i \in 1..Len(tp)}
              = {Quiz.questions[j].topic : j \in 1..Len(Quiz.questions)}
        /\ \A i \in 1..Len(tp) :
              /\ tp[i].total = Cardinality(PositionsOf(tp[i].topicId))
              /\ tp[i].correct = Cardinality(CorrectPositionsOf(tp[i].topicId))
              /\ tp[i].correct <= tp[i].total
              /\ tp[i].percentage \in 0..100
        /\ Sum([i \in 1..Len(tp) |-> tp[i].total]) = r.totalQuestions
        /\ Sum([i \in 1..Len(tp) |-> tp[i].correct]) = r.score

Ended == lastOp.op \in {"endQuiz", "timeUp"} /\ lastOp.ret # NULL /\ HasQuiz

\* C25: topicPerformance has exactly one entry for each topic with a question
\* in the session and none for another topic; total counts the session's
\* questions of the topic and correct those of them answered correctly, with
\* correct <= total and percentage in 0..100; the totals sum to
\* totalQuestions and the corrects to score.
C25_TopicBreakdown == Ended => TopicBreakdown

----------------------------------------------------------------------------
(* Loading the question bank, checked under LoadSpec *)

Fetched(outcomes) == {f \in 1..Len(outcomes) : outcomes[f] \in {"ok", "invalidRecord"}}
Refused(outcomes) == {f \in 1..Len(outcomes) : outcomes[f] = "invalidRecord"}

\* a run of the load and what the query is afterwards
LoadOutcome ==
    (lastOp'.op = "fetchQuestions") =>
       LET outcomes == lastOp'.arg[1]
       IN  /\ questionsQuery.status = "pending"
           /\ (Fetched(outcomes) # {} /\ Refused(outcomes) = {}) =>
                 /\ questionsQuery'.status = "success"
                 /\ Len(bank') = 2 * Cardinality(Fetched(outcomes))
                 /\ \A i \in 1..Len(bank') : (bank'[i].id + 1) \div 2 \in Fetched(outcomes)
           /\ Refused(outcomes) # {} =>
                 /\ questionsQuery'.status = "error"
                 /\ questionsQuery'.failureCount = questionsQuery.failureCount
                 /\ bank' = bank
           /\ Fetched(outcomes) = {} =>
                 /\ bank' = bank
                 /\ IF questionsQuery.failureCount < 2
                    THEN /\ questionsQuery'.status = "pending"
                         /\ questionsQuery'.failureCount = questionsQuery.failureCount + 1
                    ELSE /\ questionsQuery'.status = "error"
                         /\ questionsQuery'.failureCount = questionsQuery.failureCount

\* a query that has succeeded or failed is not run again
LoadTerminal ==
    (questionsQuery.status # "pending") =>
        (questionsQuery' = questionsQuery /\ bank' = bank)

\* C26: a load succeeds when at least one file is fetched and every merged
\* record is valid, whatever the other files do; a load that fails
\* validation is not retried; a load in which no file is fetched is retried
\* at most 2 times, and the failure after the second retry is final.
C26_LoadRetry ==
    /\ [](questionsQuery.failureCount \in 0..2)
    /\ [][LoadOutcome /\ LoadTerminal]_vars

\* the third run of the load fetched no file: the query has failed for good
C26_Witness ==
    /\ questionsQuery.status = "error"
    /\ questionsQuery.failureCount = 2
    /\ questionsQuery.error = NO_FILES_MESSAGE
    /\ bank = << >>

----------------------------------------------------------------------------
(* The choice recorded in an answer, checked under AnswerSpec *)

\* C27: in every session state each answer's selectedChoiceIndex is null or
\* an index into the shuffled choices of its question, for questions with 2
\* to 6 choices and selections made by a click or by the keys 1 to 4.
C27_ValidChoiceIndex ==
    HasQuiz =>
       \A i \in 1..Len(Quiz.answers) :
          \/ Quiz.answers[i].selectedChoiceIndex = NULL
          \/ Quiz.answers[i].selectedChoiceIndex[1]
                \in 0..(Len(Quiz.questions[i].shuffledChoices) - 1)

----------------------------------------------------------------------------
(* What an import reports, checked under HistorySpec *)

\* C28: whenever importQuizHistory returns success = true, getQuizHistory
\* returns the imported history.
C28_ImportPersisted ==
    (lastOp.op = "importQuizHistory" /\ lastOp.ret[1].success) =>
       LET root == lastOp.arg[1].root
       IN  /\ getQuizHistory.results = root.results.items
           /\ getQuizHistory.usedQuestionSets = root.usedQuestionSets.items
           /\ getQuizHistory.lastQuizDate =
                 IF root.lastQuizDate.type = "null" THEN NULL
                 ELSE Some(root.lastQuizDate.value)

----------------------------------------------------------------------------
(* The current index of any session, checked under Spec *)

\* C30: currentQuestionIndex is never negative, the session started from a
\* bank that yields zero questions included.
C30_IndexNeverNegative ==
    HasQuiz => Quiz.currentQuestionIndex >= 0

----------------------------------------------------------------------------
(* Liveness of the timer, checked under LiveSpec *)

\* the session with the given id is the current one and is in progress
LiveSession(id) == HasQuiz /\ Quiz.id = id /\ ~Quiz.isCompleted

\* startQuiz takes the clock reading as the id and leaves a reading to end at
SessionIds == 0..(MaxClock - 2)

\* C29: when the tick keeps firing on a session in progress and not paused,
\* and a paused session is resumed, every started session is eventually
\* completed, replaced or cleared; so no session stays in progress forever,
\* with a positive timeRemaining or otherwise.
C29_TimerLiveness ==
    \A id \in SessionIds : LiveSession(id) ~> ~LiveSession(id)

\* the time ran out on the second session started: the last tick ended it
C29_Witness ==
    /\ lastOp.op = "timeUp"
    /\ HasQuiz
    /\ Quiz.id = 1
    /\ Quiz.isCompleted
    /\ Quiz.timeRemaining = 0
    /\ ~intervalArmed

====
